---------------------------- MODULE Spec2Model ----------------------------
(***************************************************************************)
(* Position & Risk Management Engine of the Bybit trading bot:             *)
(*   src/core/risk_manager.py      (RiskManager)                           *)
(*   src/core/position_manager.py  (PositionManager)                       *)
(*                                                                         *)
(* Numbers.  The code computes with Python floats; the model computes the  *)
(* same expressions over exact rationals, kept as scaled integers:         *)
(*   - prices and balance are integers (quote units);                      *)
(*   - a size is an integer number of 1/SizeScale base units               *)
(*     (size 10000 is 1.0);                                                *)
(*   - current_risk holds  SizeScale * leverage * (the code's              *)
(*     current_risk), so that the division by leverage is exact;           *)
(*   - paper_balance and P&L are in 1/SizeScale quote units;               *)
(*   - percentages stay percentages, comparisons are cross-multiplied.     *)
(* The input sets are chosen so that every quotient the model stores is    *)
(* exact.  Floating-point rounding itself is not modelled.                 *)
(***************************************************************************)
EXTENDS Integers, Sequences, FiniteSets, Bags, TLC

VARIABLES
    \* ---- RiskManager ----
    config,            \* the configuration the bot was started with
    balance,           \* RiskManager.balance
    current_risk,      \* RiskManager.current_risk (scaled, see above)
    risk_log,          \* RiskManager.risk_log
    \* ---- PositionManager ----
    paper_trading,     \* PositionManager.paper_trading
    positions,         \* PositionManager.positions (the cache), insertion-ordered
    aliased,           \* TRUE once self.positions IS self.paper_positions
    last_update_time,  \* PositionManager.last_update_time
    operations_log,    \* PositionManager.operations_log
    paper_positions,   \* PositionManager.paper_positions, insertion-ordered
    paper_balance,     \* PositionManager.paper_balance (1/SizeScale units)
    \* ---- environment: clock, market, venue ----
    now,               \* time.time()
    last_price,        \* the venue's last traded price, per symbol
    venue_size,        \* the venue's position size, per (symbol, side)
    venue_entry,       \* the venue's entry price, per (symbol, side)
    venue_stops,       \* the venue's active conditional (reduce-only) orders
    \* ---- observation of the last call ----
    ret,               \* the last operation, its arguments and what it returned
    venue_calls,       \* the orders the last operation sent to the venue, in order
    refresh_log,       \* the last _update_positions call
    tracked,           \* the sizes added to the risk ledger and not yet removed
    \* ---- callers ----
    threads,           \* where each caller is inside the call it has begun
    \* ---- TradingBot, StrategyManager, MarketAnalyzer ----
    bot                \* is_running, the strategy-loop threads, the strategies,
                       \* the long-entry block flag and the BTC trend

vars == <<config, balance, current_risk, risk_log, paper_trading, positions,
          aliased, last_update_time, operations_log, paper_positions,
          paper_balance, now, last_price, venue_size, venue_entry, venue_stops,
          ret, venue_calls, refresh_log, tracked, threads, bot>>

rmVars  == <<config, balance, current_risk, risk_log, tracked>>
pmVars  == <<paper_trading, positions, aliased, last_update_time,
             operations_log, paper_positions, paper_balance>>
envVars == <<now, last_price, venue_size, venue_entry, venue_stops>>
obsVars == <<ret, venue_calls, refresh_log>>

-----------------------------------------------------------------------------
(* Units and absent values *)

\* math.floor(position_size * 10000) / 10000
SizeScale == 10000

\* config percentages are divided by 100 where they are read
Percent == 100

\* Python's None: an optional argument that was not given, a field that is unset
None == -1

Abs(x) == IF x < 0 THEN -x ELSE x

Max(a, b) == IF a >= b THEN a ELSE b

NoCall == [op |-> "init", args |-> <<>>, value |-> None]

\* Python truthiness of an optional number: None and 0 are both false
Truthy(x) == x # None /\ x # 0

-----------------------------------------------------------------------------
(* Bounds of the model *)

\* at most this many entries are kept in risk_log
MaxRiskLog == 3

\* at most this many entries are kept in operations_log
MaxLog == 2

\* the clock stops here
MaxTime == 11

-----------------------------------------------------------------------------
(* Input sets *)

Symbols == {"BTCUSDT", "ETHUSDT"}

Sides == {"long", "short"}

\* the callers of the one PositionManager and the one RiskManager: the bot's
\* strategy thread and an operation made by hand
Threads == {"loop", "manual"}

\* a caller that is inside no call
Idle == [pc |-> "idle"]

\* the threads that start() creates for _run_strategy_loop, in this order
StrategyThreads == {1, 2}

\* a strategy thread that start() has not created yet; one that was created
\* has the place it is at in _run_strategy_loop, the btc_trend it read in the
\* iteration it is in, and whether stop() was called since it was created
Unstarted == [pc |-> "unstarted", btc_trend |-> None, stopped |-> FALSE]

\* config['risk_management']: leverage, max_risk_per_trade (%), max_risk_total (%)
Configs ==
    [leverage                 : {1, 2},
     max_risk_per_trade       : {1, 8},
     max_risk_total           : {5, 50},
     trailing_stop_enabled    : {TRUE},
     trailing_stop_activation : {5},
     trailing_stop_callback   : {10},
     min_risk_reward_ratio    : {200},
     stop_loss_percent        : {1},
     initial_balance          : {1000}]

Balances == {0, 100, 1000}

\* sizes 0.5 and 2.0
RiskSizes == {5000, 20000}

\* (entry_price, stop_loss) of the positions handed to the ledger
RiskLevels == {<<100, 90>>, <<100, 120>>}

-----------------------------------------------------------------------------
(* RiskManager *)

\* position_risk = size * abs(entry_price - stop_loss) / self.leverage,
\* scaled by leverage: the value returned is leverage * position_risk
PositionRisk(size, entry_price, stop_loss) ==
    size * Abs(entry_price - stop_loss)

\* the entry appended to risk_log (time and risk_percent left out)
RiskLogEntry(action, symbol, size, entry_price, stop_loss, risk) ==
    [action |-> action, symbol |-> symbol, size |-> size,
     entry_price |-> entry_price, stop_loss |-> stop_loss,
     position_risk |-> PositionRisk(size, entry_price, stop_loss),
     current_risk |-> risk]

\* self.current_risk += position_risk
RiskAfterAdd(risk, size, entry_price, stop_loss) ==
    risk + PositionRisk(size, entry_price, stop_loss)

\* self.current_risk = max(0, self.current_risk - position_risk)
RiskAfterRemove(risk, size, entry_price, stop_loss) ==
    Max(0, risk - PositionRisk(size, entry_price, stop_loss))

\* the ledger entry of a position: `size` units held at these price levels
Entry(symbol, size, entry_price, stop_loss) ==
    IF size > 0 THEN [k \in {<<symbol, entry_price, stop_loss>>} |-> size]
    ELSE EmptyBag

\* RiskManager.update_balance
update_balance(new_balance) ==
    /\ balance' = new_balance
    /\ ret' = [op |-> "update_balance", args |-> <<new_balance>>, value |-> None]
    /\ UNCHANGED <<config, current_risk, risk_log, tracked>>
    /\ UNCHANGED <<pmVars, envVars, venue_calls, refresh_log, threads, bot>>

\* RiskManager.add_position_risk
add_position_risk(symbol, size, entry_price, stop_loss) ==
    /\ Len(risk_log) < MaxRiskLog
    /\ current_risk' = RiskAfterAdd(current_risk, size, entry_price, stop_loss)
    /\ risk_log' = Append(risk_log,
           RiskLogEntry("add_risk", symbol, size, entry_price, stop_loss,
                        current_risk'))
    /\ tracked' = tracked (+) Entry(symbol, size, entry_price, stop_loss)
    /\ ret' = [op |-> "add_position_risk",
               args |-> <<symbol, size, entry_price, stop_loss>>, value |-> None]
    /\ UNCHANGED <<config, balance>>
    /\ UNCHANGED <<pmVars, envVars, venue_calls, refresh_log, threads, bot>>

\* RiskManager.remove_position_risk
remove_position_risk(symbol, size, entry_price, stop_loss) ==
    /\ Len(risk_log) < MaxRiskLog
    /\ current_risk' = RiskAfterRemove(current_risk, size, entry_price, stop_loss)
    /\ risk_log' = Append(risk_log,
           RiskLogEntry("remove_risk", symbol, size, entry_price, stop_loss,
                        current_risk'))
    /\ tracked' = tracked (-) Entry(symbol, size, entry_price, stop_loss)
    /\ ret' = [op |-> "remove_position_risk",
               args |-> <<symbol, size, entry_price, stop_loss>>, value |-> None]
    /\ UNCHANGED <<config, balance>>
    /\ UNCHANGED <<pmVars, envVars, venue_calls, refresh_log, threads, bot>>


\* check_position_size as it would be with the per-trade cap put on the margin
\* (notional / leverage) instead of the notional
CheckPositionSize_MarginCap(size, price) ==
    IF balance <= 0 THEN FALSE
    ELSE IF size * price * Percent
              > balance * config.max_risk_per_trade * config.leverage * config.leverage
                  * SizeScale
         THEN FALSE
    ELSE IF Percent * (current_risk + size * price)
              > balance * config.max_risk_total * SizeScale * config.leverage
         THEN FALSE
    ELSE TRUE

\* check_position_size as it would be with the portfolio cap put on the new
\* position alone, the risk already open left out
CheckPositionSize_IgnoresOpenRisk(size, price) ==
    IF balance <= 0 THEN FALSE
    ELSE IF size * price * Percent
              > balance * config.max_risk_per_trade * config.leverage * SizeScale
         THEN FALSE
    ELSE IF Percent * size * price
              > balance * config.max_risk_total * SizeScale * config.leverage
         THEN FALSE
    ELSE TRUE

\* the value check_position_size returns: balance, per-trade cap on the
\* notional size * price, then portfolio cap on current_risk + notional/leverage
CheckPositionSize(size, price) ==
    IF balance <= 0 THEN FALSE
    ELSE IF size * price * Percent
              > balance * config.max_risk_per_trade * config.leverage * SizeScale
         THEN FALSE
    ELSE IF Percent * (current_risk + size * price)
              > balance * config.max_risk_total * SizeScale * config.leverage
         THEN FALSE
    ELSE TRUE

\* risk_percent (in percent) defaults to max_risk_per_trade
RiskPercentOrDefault(risk_percent) ==
    IF risk_percent = None THEN config.max_risk_per_trade ELSE risk_percent

\* calculate_position_size as it would be without the leverage
CalculatePositionSize_NoLeverage(entry_price, stop_loss_price, risk_percent) ==
    IF entry_price <= 0 \/ stop_loss_price <= 0 THEN 0
    ELSE IF Abs(entry_price - stop_loss_price) = 0 THEN 0
    ELSE (balance * RiskPercentOrDefault(risk_percent) * SizeScale)
            \div (Percent * Abs(entry_price - stop_loss_price))

\* calculate_position_size as it would be with the price guard written "< 0"
CalculatePositionSize_ZeroPriceAllowed(entry_price, stop_loss_price, risk_percent) ==
    IF entry_price < 0 \/ stop_loss_price < 0 THEN 0
    ELSE IF Abs(entry_price - stop_loss_price) = 0 THEN 0
    ELSE (balance * RiskPercentOrDefault(risk_percent) * config.leverage * SizeScale)
            \div (Percent * Abs(entry_price - stop_loss_price))

\* the value calculate_position_size returns, in 1/SizeScale units:
\* 0 for a price <= 0 or a zero price difference, else
\* floor(balance * risk_percent * leverage / price_diff * 10000) / 10000
CalculatePositionSize(entry_price, stop_loss_price, risk_percent) ==
    IF entry_price <= 0 \/ stop_loss_price <= 0 THEN 0
    ELSE IF Abs(entry_price - stop_loss_price) = 0 THEN 0
    ELSE (balance * RiskPercentOrDefault(risk_percent) * config.leverage * SizeScale)
            \div (Percent * Abs(entry_price - stop_loss_price))

\* check_risk_reward_ratio as it would be with "<=" for "<"
CheckRiskRewardRatio_Strict(entry_price, stop_loss, take_profit, side) ==
    IF Abs(entry_price - stop_loss) > 0
    THEN ~(Abs(entry_price - take_profit) * Percent
             <= config.min_risk_reward_ratio * Abs(entry_price - stop_loss))
    ELSE FALSE

\* the value check_risk_reward_ratio returns; min_risk_reward_ratio is kept in
\* hundredths (200 is 2.0), the quotient is compared cross-multiplied
CheckRiskRewardRatio(entry_price, stop_loss, take_profit, side) ==
    IF Abs(entry_price - stop_loss) > 0
    THEN ~(Abs(entry_price - take_profit) * Percent
             < config.min_risk_reward_ratio * Abs(entry_price - stop_loss))
    ELSE FALSE

\* RiskManager.check_risk_reward_ratio
check_risk_reward_ratio(entry_price, stop_loss, take_profit, side) ==
    /\ ret' = [op |-> "check_risk_reward_ratio",
               args |-> <<entry_price, stop_loss, take_profit, side>>,
               value |-> CheckRiskRewardRatio(entry_price, stop_loss,
                                              take_profit, side)]
    /\ UNCHANGED <<rmVars, pmVars, envVars, venue_calls, refresh_log, threads, bot>>

\* Python's round(x) of the quotient num / den, den > 0: the nearest integer,
\* the even one of the two when both are equally near
Round(num, den) ==
    LET q == num \div den
        r == num - q * den
    IN  IF 2 * r < den THEN q
        ELSE IF 2 * r > den THEN q + 1
        ELSE IF q % 2 = 0 THEN q ELSE q + 1

\* "precision = 2; round(price, precision)".  The prices of
\* calculate_stop_loss and calculate_take_profit are in thousandths, one digit
\* more than the rounding keeps: the price num / den thousandths is rounded to
\* the nearest hundredth, that is to a multiple of 10 thousandths
RoundPrice(num, den) == 10 * Round(num, 10 * den)

\* the value calculate_stop_loss returns; atr_multiplier is in hundredths
\* (200 is 2.0), stop_loss_percent in percent
CalculateStopLoss(entry_price, side, atr_value, atr_multiplier) ==
    IF atr_value # None /\ atr_value > 0
    THEN IF side = "long"
         THEN RoundPrice(entry_price * Percent - atr_value * atr_multiplier, Percent)
         ELSE RoundPrice(entry_price * Percent + atr_value * atr_multiplier, Percent)
    ELSE IF side = "long"
         THEN RoundPrice(entry_price * (Percent - config.stop_loss_percent), Percent)
         ELSE RoundPrice(entry_price * (Percent + config.stop_loss_percent), Percent)

\* RiskManager.calculate_stop_loss
calculate_stop_loss(symbol, entry_price, side, atr_value, atr_multiplier) ==
    /\ ret' = [op |-> "calculate_stop_loss",
               args |-> <<symbol, entry_price, side, atr_value, atr_multiplier>>,
               value |-> CalculateStopLoss(entry_price, side, atr_value,
                                           atr_multiplier)]
    /\ UNCHANGED <<rmVars, pmVars, envVars, venue_calls, refresh_log, threads, bot>>

\* the value calculate_take_profit returns
CalculateTakeProfit(entry_price, stop_loss, side) ==
    LET stop_distance == Abs(entry_price - stop_loss)
    IN  IF side = "long"
        THEN RoundPrice(entry_price * Percent
                          + stop_distance * config.min_risk_reward_ratio, Percent)
        ELSE RoundPrice(entry_price * Percent
                          - stop_distance * config.min_risk_reward_ratio, Percent)

\* RiskManager.calculate_take_profit
calculate_take_profit(entry_price, stop_loss, side) ==
    /\ ret' = [op |-> "calculate_take_profit",
               args |-> <<entry_price, stop_loss, side>>,
               value |-> CalculateTakeProfit(entry_price, stop_loss, side)]
    /\ UNCHANGED <<rmVars, pmVars, envVars, venue_calls, refresh_log, threads, bot>>

\* what an operation leaves to its caller when it raises: no value, the
\* exception
Raise(op, args) == [op |-> op, args |-> args, raised |-> "TypeError"]

\* check_position_size has no try: with a positive balance "size * price"
\* is evaluated, and raises TypeError when an argument is None
CheckRaises(size, price) == balance > 0 /\ (size = None \/ price = None)

\* calculate_position_size has no try: "entry_price <= 0 or stop_loss_price
\* <= 0" raises TypeError on a None it comes to compare
CalcRaises(entry_price, stop_loss_price) ==
    entry_price = None \/ (entry_price > 0 /\ stop_loss_price = None)

\* RiskManager.check_position_size
check_position_size(symbol, size, price) ==
    /\ ret' = IF CheckRaises(size, price)
              THEN Raise("check_position_size", <<symbol, size, price>>)
              ELSE [op |-> "check_position_size", args |-> <<symbol, size, price>>,
                    value |-> CheckPositionSize(size, price)]
    /\ UNCHANGED <<rmVars, pmVars, envVars, venue_calls, refresh_log, threads, bot>>

\* RiskManager.calculate_position_size
calculate_position_size(symbol, entry_price, stop_loss_price, risk_percent) ==
    /\ ret' = IF CalcRaises(entry_price, stop_loss_price)
              THEN Raise("calculate_position_size",
                         <<symbol, entry_price, stop_loss_price, risk_percent>>)
              ELSE [op |-> "calculate_position_size",
                    args |-> <<symbol, entry_price, stop_loss_price, risk_percent>>,
                    value |-> CalculatePositionSize(entry_price, stop_loss_price,
                                                    risk_percent)]
    /\ UNCHANGED <<rmVars, pmVars, envVars, venue_calls, refresh_log, threads, bot>>

-----------------------------------------------------------------------------
(* The position store: a Python dict, which keeps insertion order, is a     *)
(* sequence of records with pairwise different keys                         *)

\* position_key = f"{symbol}_{side}"
PosKey(p) == <<p.symbol, p.side>>

\* the index of the key in the store, 0 when it is absent
Find(store, key) ==
    LET I == {i \in 1..Len(store) : PosKey(store[i]) = key}
    IN  IF I = {} THEN 0 ELSE CHOOSE i \in I : TRUE

\* "for key, pos in self.positions.items(): if pos['symbol'] == symbol: break":
\* the index of the first position of the symbol, 0 when there is none
FirstOfSymbol(store, symbol) ==
    LET I == {i \in 1..Len(store) : store[i].symbol = symbol}
    IN  IF I = {} THEN 0 ELSE CHOOSE i \in I : \A j \in I : i <= j

\* the store as it would be if a key that is present kept its position
Put_KeepsExisting(store, p) ==
    IF Find(store, PosKey(p)) = 0 THEN Append(store, p) ELSE store

\* store[key] = p: an existing key keeps its place, a new key goes last
Put(store, p) ==
    IF Find(store, PosKey(p)) = 0 THEN Append(store, p)
    ELSE [store EXCEPT ![Find(store, PosKey(p))] = p]

\* the store as it would be if nothing were ever deleted from it
Del_Keeps(store, key) == store

\* del store[key]
Del(store, key) == SelectSeq(store, LAMBDA p : PosKey(p) # key)

\* position.get(field, default)
Get(p, field, default) == IF field \in DOMAIN p THEN p[field] ELSE default

-----------------------------------------------------------------------------
(* The venue (an external collaborator): hedge mode, one position per       *)
(* (symbol, side); it reports every (symbol, side), open or not             *)

\* the order in which the venue lists its positions
VenueKeys == <<<<"BTCUSDT", "long">>, <<"BTCUSDT", "short">>,
               <<"ETHUSDT", "long">>, <<"ETHUSDT", "short">>>>

\* the venue's name of a side: a long is opened by Buy, a short by Sell
ApiSide(side) == IF side = "long" THEN "Buy" ELSE "Sell"

\* side = 'long' if pos['side'] == 'Buy' else 'short'
SideOfApi(api_side) == IF api_side = "Buy" THEN "long" ELSE "short"

\* result.list of a get_positions response
VenueList(vsize, ventry) ==
    [i \in 1..Len(VenueKeys) |->
        [symbol     |-> VenueKeys[i][1],
         side       |-> ApiSide(VenueKeys[i][2]),
         size       |-> vsize[VenueKeys[i]],
         entryPrice |-> ventry[VenueKeys[i]]]]

\* the entries of a response that are tried as the unparsable one
MalformedAt == {1, 2}

\* what a get_positions call can do: answer with retCode 0 ("ok"), answer with
\* another retCode ("error"), raise ("raise"), or answer with retCode 0 and a
\* list whose entry number `at` cannot be parsed ("malformed")
Responses(list) ==
    {[kind |-> k, at |-> 0] : k \in {"ok", "error", "raise"}}
        \cup {[kind |-> "malformed", at |-> i] : i \in MalformedAt \cap 1..Len(list)}

\* the cache entry built from one entry of the list (no stop_loss, no
\* take_profit: the venue's position carries none)
LiveRecord(e) ==
    [symbol      |-> e.symbol,
     side        |-> SideOfApi(e.side),
     size        |-> e.size,
     entry_price |-> e.entryPrice]

\* the loop over positions_list: only entries with size > 0 are kept
ParseList(list) ==
    LET kept == SelectSeq(list, LAMBDA e : e.size > 0)
    IN  [i \in 1..Len(kept) |-> LiveRecord(kept[i])]

-----------------------------------------------------------------------------
(* PositionManager.  A handler is an operator from the state before to the  *)
(* set of states it can leave, one for each way the venue can answer.       *)

\* self.cache_update_interval = 5 (seconds)
cache_update_interval == 5

\* the state as a record
Cur ==
    [balance |-> balance, current_risk |-> current_risk, risk_log |-> risk_log,
     tracked |-> tracked, positions |-> positions, aliased |-> aliased,
     last_update_time |-> last_update_time, operations_log |-> operations_log,
     paper_positions |-> paper_positions, paper_balance |-> paper_balance,
     venue_size |-> venue_size, venue_entry |-> venue_entry,
     venue_stops |-> venue_stops, ret |-> NoCall, venue_calls |-> <<>>,
     refresh_log |-> refresh_log, threads |-> threads, bot |-> bot]

\* the state after a handler
Becomes(st) ==
    /\ balance' = st.balance
    /\ current_risk' = st.current_risk
    /\ risk_log' = st.risk_log
    /\ tracked' = st.tracked
    /\ positions' = st.positions
    /\ aliased' = st.aliased
    /\ last_update_time' = st.last_update_time
    /\ operations_log' = st.operations_log
    /\ paper_positions' = st.paper_positions
    /\ paper_balance' = st.paper_balance
    /\ venue_size' = st.venue_size
    /\ venue_entry' = st.venue_entry
    /\ venue_stops' = st.venue_stops
    /\ ret' = st.ret
    /\ venue_calls' = st.venue_calls
    /\ refresh_log' = st.refresh_log
    /\ threads' = st.threads
    /\ bot' = st.bot
    /\ UNCHANGED <<config, paper_trading, now, last_price>>

\* a call to the venue, as venue_calls records it
VenueCall(call, symbol, api_side, qty, reduce_only, kind, trigger) ==
    [call |-> call, symbol |-> symbol, side |-> api_side, qty |-> qty,
     reduce_only |-> reduce_only, kind |-> kind, trigger |-> trigger]

GetPositionsCall == VenueCall("get_positions", "", "", None, FALSE, "", None)

\* the manager calls the venue; venue_calls keeps the orders sent
Called(st, c) ==
    IF c.call = "place_order" THEN [st EXCEPT !.venue_calls = Append(@, c)] ELSE st

\* the store as it would be if a refresh did not hand over the paper map
Cache_NeverAliased(st) == st.positions

\* self.positions as a caller reads it
Cache(st) == IF st.aliased THEN st.paper_positions ELSE st.positions

\* the refresh condition as it would be with ">" for ">="
Due_Late(st, force) ==
    force \/ now - st.last_update_time > cache_update_interval

\* "if force or (current_time - self.last_update_time >=
\* self.cache_update_interval)": is a refresh due?
Due(st, force) ==
    force \/ now - st.last_update_time >= cache_update_interval

\* one _update_positions call: its argument, when it ran, what the venue did
\* ("skipped": the refresh was not due, "paper": paper mode, no venue) and
\* when the venue was last queried
RefreshEntry(st, force, outcome) ==
    [force |-> force, time |-> now, outcome |-> outcome,
     last_query |-> IF outcome \in {"skipped", "paper"}
                    THEN st.refresh_log.last_query ELSE now]

\* one _update_positions(force) given the venue's answer
UpdateWith(st, force, resp) ==
    LET Noted(s, outcome) ==
            [s EXCEPT !.refresh_log = RefreshEntry(st, force, outcome)]
    IN  IF ~Due(st, force)
        THEN Noted(st, "skipped")
        ELSE IF paper_trading
        THEN Noted([st EXCEPT !.aliased = TRUE, !.last_update_time = now], "paper")
        ELSE LET list == VenueList(st.venue_size, st.venue_entry)
                 called == Called(st, GetPositionsCall)
             IN  CASE resp.kind = "ok" ->
                        Noted([called EXCEPT !.positions = ParseList(list),
                                             !.last_update_time = now], "ok")
                   [] resp.kind = "error" ->
                        Noted([called EXCEPT !.last_update_time = now], "error")
                   [] resp.kind = "raise" -> Noted(called, "raise")
                   [] resp.kind = "malformed" ->
                        Noted([called EXCEPT !.positions =
                                  ParseList(SubSeq(list, 1, resp.at - 1))],
                              "malformed")

\* does this _update_positions(force) call query the venue?
Queries(st, force) == Due(st, force) /\ ~paper_trading

\* _update_positions as it would be if it never refreshed
UpdatePositions_Never(st, force) == {st}

\* PositionManager._update_positions
UpdatePositions(st, force) ==
    IF Queries(st, force)
    THEN {UpdateWith(st, force, resp) :
            resp \in Responses(VenueList(st.venue_size, st.venue_entry))}
    ELSE {UpdateWith(st, force, [kind |-> "none", at |-> 0])}

\* PositionManager.get_active_positions
get_active_positions ==
    \E st \in UpdatePositions(Cur, FALSE) :
        Becomes([st EXCEPT !.ret = [op |-> "get_active_positions", args |-> <<>>,
                                    value |-> Cache(st)]])


\* the None an operation returns when it fails, written as a result without
\* success so that every result of open, close and modify can be asked for it
Failure == [success |-> FALSE]

Return(st, op, args, value) ==
    [st EXCEPT !.ret = [op |-> op, args |-> args, value |-> value]]

\* what a place_order / cancel_order call can do: retCode 0, another retCode,
\* or an exception
OrderOutcomes == {"ok", "reject", "raise"}

\* PositionManager._get_ticker: the last price, or None when the call fails.
\* The set of (state, price) pairs it can leave.
GetTicker(st, symbol) ==
    LET st1 == Called(st, VenueCall("get_tickers", symbol, "", None, FALSE, "", None))
    IN  {<<st1, last_price[symbol]>>, <<st1, None>>}

\* PositionManager._set_leverage: nothing in paper mode, else one venue call
\* whose failure is only logged
SetLeverage(st, symbol) ==
    IF paper_trading THEN st
    ELSE Called(st, VenueCall("set_leverage", symbol, "", None, FALSE, "", None))

\* a conditional reduce-only order resting at the venue
StopOrder(symbol, side, kind, trigger) ==
    [symbol |-> symbol, side |-> side, kind |-> kind, trigger |-> trigger]

\* one conditional order of _set_stop_loss_take_profit: placed on the side
\* opposite to the position, reduce-only; it rests at the venue when accepted
PlaceStop(st, symbol, side, size, kind, trigger, outcome) ==
    LET api_side == IF side = "long" THEN "Sell" ELSE "Buy"
        st1 == Called(st, VenueCall("place_order", symbol, api_side, size, TRUE,
                                    kind, trigger))
    IN  IF outcome = "ok"
        THEN [st1 EXCEPT !.venue_stops = @ \cup {StopOrder(symbol, side, kind, trigger)}]
        ELSE st1

\* the part of a _set_stop_loss_take_profit result for one field
FieldResult(given, outcome) ==
    IF given = None THEN "absent" ELSE IF outcome = "ok" THEN "placed" ELSE "failed"

\* PositionManager._set_stop_loss_take_profit: stop-loss, take-profit and
\* trailing stop in this order, each only when given; an exception ends the
\* method with a failure result and places nothing more.  The set of states
\* it can leave, with the method's result in ret.value.
SetStopLossTakeProfit(st, symbol, side, size, stop_loss, take_profit, trailing_stop) ==
    LET Outcomes(given) == IF given = None THEN {"ok"} ELSE OrderOutcomes
        Placed(s, given, kind, trigger, o) ==
            IF given = None THEN s
            ELSE PlaceStop(s, symbol, side, size, kind, trigger, o)
    IN  { LET s1 == Placed(st, stop_loss, "StopLoss", stop_loss, o[1])
              s2 == IF o[1] = "raise" THEN s1
                    ELSE Placed(s1, take_profit, "TakeProfit", take_profit, o[2])
              s3 == IF o[1] = "raise" \/ o[2] = "raise" THEN s2
                    ELSE Placed(s2, trailing_stop, "TrailingStop", trailing_stop, o[3])
          IN  [s3 EXCEPT !.ret.value =
                 IF "raise" \in {o[1], o[2], o[3]}
                 THEN [success |-> FALSE, stop_loss |-> "absent",
                       take_profit |-> "absent", trailing_stop |-> "absent"]
                 ELSE [success |-> TRUE,
                       stop_loss |-> FieldResult(stop_loss, o[1]),
                       take_profit |-> FieldResult(take_profit, o[2]),
                       trailing_stop |-> FieldResult(trailing_stop, o[3])]]
          : o \in {x \in Outcomes(stop_loss) \X Outcomes(take_profit)
                             \X Outcomes(trailing_stop) :
                     /\ (x[1] = "raise" => x[2] = "ok" /\ x[3] = "ok")
                     /\ (x[2] = "raise" => x[3] = "ok")} }

\* the record as it would be if the P&L of the operation were not written to it
OpRecord_NoPnl(operation, symbol, side, size, price, stop_loss, take_profit, pnl) ==
    [operation |-> operation, symbol |-> symbol, side |-> side, size |-> size,
     price |-> price, stop_loss |-> stop_loss, take_profit |-> take_profit,
     trailing_stop |-> None, pnl |-> 0]

\* the entry appended to operations_log (time, strategy and order id left out)
OpRecord(operation, symbol, side, size, price, stop_loss, take_profit, pnl) ==
    [operation |-> operation, symbol |-> symbol, side |-> side, size |-> size,
     price |-> price, stop_loss |-> stop_loss, take_profit |-> take_profit,
     trailing_stop |-> None, pnl |-> pnl]

\* the entry a modify appends: the three fields as they were given
ModifyRecord(operation, symbol, side, stop_loss, take_profit, trailing_stop) ==
    [operation |-> operation, symbol |-> symbol, side |-> side, size |-> None,
     price |-> None, stop_loss |-> stop_loss, take_profit |-> take_profit,
     trailing_stop |-> trailing_stop, pnl |-> 0]

LogOp(st, r) == [st EXCEPT !.operations_log = Append(@, r)]

\* the venue fills a Market entry order at its last price: the position of
\* (symbol, side) grows by qty, a new position gets the fill price as entry
VenueFill(st, symbol, side, qty) ==
    [st EXCEPT
        !.venue_size[<<symbol, side>>] = @ + qty,
        !.venue_entry[<<symbol, side>>] =
            IF st.venue_size[<<symbol, side>>] = 0 THEN last_price[symbol] ELSE @]

\* the venue fills a reduce-only Market order: the position shrinks by qty,
\* never below 0
VenueReduce(st, symbol, side, qty) ==
    [st EXCEPT !.venue_size[<<symbol, side>>] = Max(0, @ - qty)]

\* the arguments of open_position as its result and its log record echo them
OpenArgs(a) ==
    <<a.symbol, a.side, a.size, a.entry_price, a.stop_loss, a.take_profit,
      a.order_type>>

OpenResult(a, size, entry_price) ==
    [success |-> TRUE, symbol |-> a.symbol, side |-> a.side, size |-> size,
     entry_price |-> entry_price, stop_loss |-> a.stop_loss,
     take_profit |-> a.take_profit]

\* PositionManager._open_paper_position: the position is written under its
\* key, whatever was there; one log record
OpenPaperPosition(st, a, size, entry_price) ==
    LET position == [symbol |-> a.symbol, side |-> a.side, size |-> size,
                     entry_price |-> entry_price,
                     leverage |-> config.leverage,
                     stop_loss |-> a.stop_loss, take_profit |-> a.take_profit,
                     trailing_stop |-> None,
                     unrealized_pnl |-> 0, realized_pnl |-> 0]
        st1 == [st EXCEPT !.paper_positions = Put(@, position)]
        st2 == LogOp(st1, OpRecord("open_paper_position", a.symbol, a.side, size,
                                   entry_price, a.stop_loss, a.take_profit, 0))
    IN  Return(st2, "open_position", OpenArgs(a), OpenResult(a, size, entry_price))

\* the rejection as it would be if the attempt were logged all the same
OrderRejected_Logged(st, op, args) ==
    Return(LogOp(st, OpRecord(op, args[1], args[2], None, None, None, None, 0)),
           op, args, Failure)

\* "else: ... return None": the order got a non-success code, or no
\* response (_place_order returns None when the call raises)
OrderRejected(st, op, args) == Return(st, op, args, Failure)

\* open_position in live mode, from the entry order on
OpenLivePosition(st, a, size, entry_price) ==
    LET order == VenueCall("place_order", a.symbol, ApiSide(a.side), size, FALSE,
                           a.order_type,
                           IF a.order_type = "Limit" THEN entry_price ELSE None)
        st1 == Called(st, order)
        filled == IF a.order_type = "Market"
                  THEN VenueFill(st1, a.symbol, a.side, size) ELSE st1
        protected ==
            IF Truthy(a.stop_loss) \/ Truthy(a.take_profit)
            THEN SetStopLossTakeProfit(filled, a.symbol, a.side, size,
                                       a.stop_loss, a.take_profit, None)
            ELSE {filled}
        Finish(s) ==
            LET s1 == IF Truthy(a.stop_loss)
                      THEN [s EXCEPT
                              !.current_risk =
                                  RiskAfterAdd(@, size, entry_price, a.stop_loss),
                              !.risk_log = Append(@,
                                  RiskLogEntry("add_risk", a.symbol, size,
                                      entry_price, a.stop_loss,
                                      RiskAfterAdd(s.current_risk, size,
                                                   entry_price, a.stop_loss))),
                              !.tracked = @ (+) Entry(a.symbol, size, entry_price,
                                                     a.stop_loss)]
                      ELSE s
                s2 == LogOp(s1, OpRecord("open_position", a.symbol, a.side, size,
                                         entry_price, a.stop_loss, a.take_profit, 0))
            IN  Return(s2, "open_position", OpenArgs(a),
                       OpenResult(a, size, entry_price))
    IN  {OrderRejected(st1, "open_position", OpenArgs(a))}
          \cup UNION {{Finish(s2) : s2 \in UpdatePositions(s1, TRUE)} : s1 \in protected}

\* the check as it would be if a missing stop-loss were let through
Unsizable_Never(a) == FALSE

\* "if size is None: if stop_loss is None: return None": without a size and
\* without a stop-loss there is nothing to compute the size from
Unsizable(a) == a.size = None /\ a.stop_loss = None

\* PositionManager.open_position
OpenPosition(st, a) ==
    LET Fail(s) == Return(s, "open_position", OpenArgs(a), Failure)
        Priced(s, entry_price) ==
            LET s1 == SetLeverage(s, a.symbol)
            IN  IF Unsizable(a) THEN {Fail(s1)}
                ELSE LET size == IF a.size = None
                                 THEN CalculatePositionSize(entry_price,
                                                            a.stop_loss, None)
                                 ELSE a.size
                     IN  IF paper_trading
                         THEN {OpenPaperPosition(s1, a, size, entry_price)}
                         ELSE OpenLivePosition(s1, a, size, entry_price)
    IN  IF a.entry_price = None
        THEN UNION {IF t[2] = None THEN {Fail(t[1])} ELSE Priced(t[1], t[2])
                     : t \in GetTicker(st, a.symbol)}
        ELSE Priced(st, a.entry_price)

\* the side argument of close_position when it is omitted (None is false in
\* "if side:")
NoSide == ""

\* the P&L as it would be without "pnl *= position['leverage']"
PaperPnl_NoLeverage(position, size, close_price) ==
    IF position.side = "long"
    THEN (close_price - position.entry_price) * size
    ELSE (position.entry_price - close_price) * size

\* P&L of closing `size` of a paper position at close_price, leverage applied
PaperPnl(position, size, close_price) ==
    (IF position.side = "long"
     THEN (close_price - position.entry_price) * size
     ELSE (position.entry_price - close_price) * size) * position.leverage

\* PositionManager._close_paper_position, called as op with args: closes at
\* the last price, or at the entry price when the ticker fails; the balance
\* takes the P&L; the position shrinks and is deleted when nothing is left or
\* percentage >= 100; one log record
ClosePaperPosition(st, op, args, symbol, side, size, percentage) ==
    LET idx == Find(st.paper_positions, <<symbol, side>>)
    IN  IF idx = 0 THEN {Return(st, op, args, Failure)}
        ELSE { LET s1 == t[1]
                   position == s1.paper_positions[idx]
                   close_price == IF t[2] # None THEN t[2] ELSE position.entry_price
                   pnl == PaperPnl(position, size, close_price)
                   shrunk == [position EXCEPT !.size = @ - size,
                                              !.realized_pnl = @ + pnl]
                   s2 == [s1 EXCEPT
                            !.paper_balance = @ + pnl,
                            !.paper_positions =
                                IF shrunk.size <= 0 \/ percentage >= 100
                                THEN Del(@, <<symbol, side>>)
                                ELSE [@ EXCEPT ![idx] = shrunk]]
                   s3 == LogOp(s2, OpRecord("close_paper_position", symbol, side,
                                            size, close_price, None, None, pnl))
               IN  Return(s3, op, args,
                          [success |-> TRUE, symbol |-> symbol, side |-> side,
                           size |-> size, close_price |-> close_price,
                           pnl |-> pnl])
               : t \in GetTicker(st, symbol) }

\* close_position in live mode, from the closing order on.  `position` is the
\* cache entry found before the order: the refresh after the order builds a
\* new cache and leaves this entry as it was.
CloseLivePosition(st, args, symbol, position, size, percentage) ==
    LET close_side == IF position.side = "short" THEN "Buy" ELSE "Sell"
        order == VenueCall("place_order", symbol, close_side, size, TRUE,
                           "Market", None)
        st1 == Called(st, order)
        reduced == VenueReduce(st1, symbol, position.side, size)
        Finish(s) ==
            LET entry_price == Get(position, "entry_price", None)
                stop_loss == Get(position, "stop_loss", None)
                s1 == IF Truthy(entry_price) /\ Truthy(stop_loss)
                      THEN [s EXCEPT
                              !.current_risk =
                                  RiskAfterRemove(@, size, entry_price, stop_loss),
                              !.risk_log = Append(@,
                                  RiskLogEntry("remove_risk", symbol, size,
                                      entry_price, stop_loss,
                                      RiskAfterRemove(s.current_risk, size,
                                                      entry_price, stop_loss))),
                              !.tracked = @ (-) Entry(symbol, size, entry_price,
                                                     stop_loss)]
                      ELSE s
                s2 == LogOp(s1, OpRecord("close_position", symbol, position.side,
                                         size, None, None, None, 0))
            IN  Return(s2, "close_position", args,
                       [success |-> TRUE, symbol |-> symbol,
                        side |-> position.side, size |-> size,
                        percentage |-> percentage])
    IN  {OrderRejected(st1, "close_position", args)}
          \cup {Finish(s) : s \in UpdatePositions(reduced, TRUE)}

\* PositionManager.close_position
ClosePosition(st, symbol, side, percentage) ==
    LET args == <<symbol, side, percentage>>
    IN  UNION {
          LET cache == Cache(s1)
              idx == IF side # NoSide THEN Find(cache, <<symbol, side>>)
                     ELSE FirstOfSymbol(cache, symbol)
          IN  IF idx = 0 THEN {Return(s1, "close_position", args, Failure)}
              ELSE LET position == cache[idx]
                       size == (position.size * percentage) \div Percent
                   IN  IF paper_trading
                       THEN ClosePaperPosition(s1, "close_position", args, symbol,
                                               position.side, size, percentage)
                       ELSE CloseLivePosition(s1, args, symbol, position, size,
                                              percentage)
          : s1 \in UpdatePositions(st, TRUE) }

\* PositionManager._modify_paper_position: the fields given are written, the
\* others stay; one log record
ModifyPaperPosition(st, args, symbol, side, stop_loss, take_profit, trailing_stop) ==
    LET idx == Find(st.paper_positions, <<symbol, side>>)
    IN  IF idx = 0 THEN Return(st, "modify_position", args, Failure)
        ELSE LET position == st.paper_positions[idx]
                 changed ==
                     [position EXCEPT
                        !.stop_loss = IF stop_loss # None THEN stop_loss ELSE @,
                        !.take_profit = IF take_profit # None THEN take_profit ELSE @,
                        !.trailing_stop =
                            IF trailing_stop # None THEN trailing_stop ELSE @]
                 s1 == [st EXCEPT !.paper_positions[idx] = changed]
                 s2 == LogOp(s1, ModifyRecord("modify_paper_position", symbol,
                                             side, stop_loss, take_profit,
                                             trailing_stop))
             IN  Return(s2, "modify_position", args,
                        [success |-> TRUE, stop_loss |-> changed.stop_loss,
                         take_profit |-> changed.take_profit,
                         trailing_stop |-> changed.trailing_stop])

\* PositionManager._cancel_stop_orders: every conditional order of the symbol
\* is cancelled, except those whose cancellation fails (or all of them, when
\* the orders cannot be listed); cancel_order calls are not recorded
CancelStopOrders(st, symbol) ==
    LET st1 == Called(st, VenueCall("get_open_orders", symbol, "", None, FALSE,
                                    "StopOrder", None))
        mine == {o \in st.venue_stops : o.symbol = symbol}
    IN  {[st1 EXCEPT !.venue_stops = @ \ cancelled] : cancelled \in SUBSET mine}

\* PositionManager.modify_position
ModifyPosition(st, symbol, side, stop_loss, take_profit, trailing_stop) ==
    LET args == <<symbol, side, stop_loss, take_profit, trailing_stop>>
    IN  UNION {
          LET idx == Find(Cache(s1), <<symbol, side>>)
          IN  IF idx = 0 THEN {Return(s1, "modify_position", args, Failure)}
              ELSE IF paper_trading
              THEN {ModifyPaperPosition(s1, args, symbol, side, stop_loss,
                                        take_profit, trailing_stop)}
              ELSE UNION {
                     { LET s4 == LogOp(s3, ModifyRecord("modify_position", symbol,
                                                       side, stop_loss, take_profit,
                                                       trailing_stop))
                       IN  Return(s4, "modify_position", args, s3.ret.value)
                       : s3 \in SetStopLossTakeProfit(s2, symbol, side,
                                    Cache(s1)[idx].size, stop_loss, take_profit,
                                    trailing_stop) }
                     : s2 \in CancelStopOrders(s1, symbol) }
          : s1 \in UpdatePositions(st, TRUE) }

\* new_stop = current_price * (1 - callback) for a long, * (1 + callback) for
\* a short
NewStop(side, current_price) ==
    IF side = "long"
    THEN (current_price * (Percent - config.trailing_stop_callback)) \div Percent
    ELSE (current_price * (Percent + config.trailing_stop_callback)) \div Percent

\* profit_percent >= activation_percent
Activated(side, entry_price, current_price) ==
    IF side = "long"
    THEN (current_price - entry_price) * Percent
            >= config.trailing_stop_activation * entry_price
    ELSE (entry_price - current_price) * Percent
            >= config.trailing_stop_activation * entry_price

\* "new_stop > position.get('stop_loss', 0)" for a long,
\* "new_stop < position.get('stop_loss', float('inf'))" for a short: without
\* the key the default decides; with the key set to None the comparison raises
\* and the method ends
BetterStop(position, new_stop) ==
    IF "stop_loss" \notin DOMAIN position
    THEN IF position.side = "long" THEN new_stop > 0 ELSE TRUE
    ELSE IF position.stop_loss = None THEN FALSE
    ELSE IF position.side = "long" THEN new_stop > position.stop_loss
    ELSE new_stop < position.stop_loss

\* PositionManager._check_trailing_stop
CheckTrailingStop(st, symbol, side, position) ==
    UNION {
      IF t[2] = None \/ position.entry_price = 0 THEN {t[1]}
      ELSE IF /\ Activated(side, position.entry_price, t[2])
              /\ BetterStop(position, NewStop(side, t[2]))
           THEN ModifyPosition(t[1], symbol, side, NewStop(side, t[2]), None, None)
           ELSE {t[1]}
      : t \in GetTicker(st, symbol) }

RECURSIVE ManageFrom(_, _, _)
\* the loop of manage_positions over the cache it started with, from entry i
ManageFrom(st, snapshot, i) ==
    IF i > Len(snapshot) THEN {st}
    ELSE LET key == PosKey(snapshot[i])
             \* in paper mode the entry is the stored position itself
             position == IF paper_trading
                         THEN st.paper_positions[Find(st.paper_positions, key)]
                         ELSE snapshot[i]
         IN  IF config.trailing_stop_enabled
             THEN UNION {ManageFrom(s, snapshot, i + 1) :
                            s \in CheckTrailingStop(st, key[1], key[2], position)}
             ELSE ManageFrom(st, snapshot, i + 1)

\* PositionManager.manage_positions
ManagePositions(st) ==
    UNION { {Return(s2, "manage_positions", <<>>, None) :
                s2 \in ManageFrom(s1, Cache(s1), 1)}
            : s1 \in UpdatePositions(st, TRUE) }

\* the position as it would be if marking it to the market re-based its entry
MarkedPosition_Rebased(position, current_price) ==
    [position EXCEPT
        !.unrealized_pnl = PaperPnl(position, position.size, current_price),
        !.entry_price = current_price]

\* one position of _update_paper_positions_pnl: its unrealized P&L at the
\* current price, leverage applied
MarkedPosition(position, current_price) ==
    [position EXCEPT
        !.unrealized_pnl = PaperPnl(position, position.size, current_price)]

RECURSIVE UpdatePnlFrom(_, _)
\* the loop of _update_paper_positions_pnl from position i: a position whose
\* ticker fails is skipped
UpdatePnlFrom(st, i) ==
    IF i > Len(st.paper_positions) THEN {st}
    ELSE UNION {
           UpdatePnlFrom(IF t[2] = None THEN t[1]
                         ELSE [t[1] EXCEPT !.paper_positions[i] =
                                              MarkedPosition(@, t[2])],
                         i + 1)
           : t \in GetTicker(st, st.paper_positions[i].symbol) }

\* PositionManager._update_paper_positions_pnl
UpdatePaperPositionsPnl(st) ==
    IF ~paper_trading THEN {st} ELSE UpdatePnlFrom(st, 1)

\* the stop-loss test as it would be with the sides exchanged
StopLossHit_SidesSwapped(position, current_price) ==
    /\ Truthy(position.stop_loss)
    /\ IF position.side = "short" THEN current_price <= position.stop_loss
       ELSE current_price >= position.stop_loss

\* the stop-loss of the position is set and the price is at or beyond it
StopLossHit(position, current_price) ==
    /\ Truthy(position.stop_loss)
    /\ IF position.side = "long" THEN current_price <= position.stop_loss
       ELSE current_price >= position.stop_loss

\* the take-profit of the position is set and the price is at or beyond it
TakeProfitHit(position, current_price) ==
    /\ Truthy(position.take_profit)
    /\ IF position.side = "long" THEN current_price >= position.take_profit
       ELSE current_price <= position.take_profit

RECURSIVE CheckStopsFrom(_, _, _, _, _)
\* the loop of _check_paper_stop_loss_take_profit over the keys it started
\* with, from key i: a position whose stop-loss or take-profit is hit is
\* closed in full
CheckStopsFrom(st, op, args, keys, i) ==
    IF i > Len(keys) THEN {st}
    ELSE UNION {
           LET position == t[1].paper_positions[Find(t[1].paper_positions, keys[i])]
           IN  IF t[2] = None THEN CheckStopsFrom(t[1], op, args, keys, i + 1)
               ELSE IF StopLossHit(position, t[2]) \/ TakeProfitHit(position, t[2])
               THEN UNION {CheckStopsFrom(s, op, args, keys, i + 1) :
                             s \in ClosePaperPosition(t[1], op, args, keys[i][1],
                                       keys[i][2], position.size, 100)}
               ELSE CheckStopsFrom(t[1], op, args, keys, i + 1)
           : t \in GetTicker(st, keys[i][1]) }

\* PositionManager._check_paper_stop_loss_take_profit, called by op with args
CheckPaperStopLossTakeProfit(st, op, args) ==
    IF ~paper_trading THEN {st}
    ELSE CheckStopsFrom(st, op, args,
                        [i \in 1..Len(st.paper_positions) |->
                            PosKey(st.paper_positions[i])], 1)

RECURSIVE SumField(_, _)
\* sum(p.get(field, 0) for p in store)
SumField(store, field) ==
    IF store = <<>> THEN 0
    ELSE Get(Head(store), field, 0) + SumField(Tail(store), field)

\* the P&L record get_position_pnl returns for the positions of a list
PnlOf(store) ==
    [unrealized_pnl |-> SumField(store, "unrealized_pnl"),
     realized_pnl   |-> SumField(store, "realized_pnl"),
     total_pnl      |-> SumField(store, "unrealized_pnl")
                          + SumField(store, "realized_pnl")]

\* PositionManager.get_position_pnl: a forced refresh, the paper P&L brought
\* up to date, then the P&L of the position, or of all positions of the symbol
\* when the side is omitted (zeros when there is none)
GetPositionPnl(st, symbol, side) ==
    UNION {
      { LET cache == Cache(s2)
            found == IF side # NoSide
                     THEN SelectSeq(cache, LAMBDA p : PosKey(p) = <<symbol, side>>)
                     ELSE SelectSeq(cache, LAMBDA p : p.symbol = symbol)
        IN  Return(s2, "get_position_pnl", <<symbol, side>>, PnlOf(found))
        : s2 \in UpdatePaperPositionsPnl(s1) }
      : s1 \in UpdatePositions(st, TRUE) }

\* PositionManager.get_position: a forced refresh, then the position of the
\* key (None when there is none), or the list of the symbol's positions when
\* the side is omitted
GetPosition(st, symbol, side) ==
    { LET cache == Cache(s1)
          idx == Find(cache, <<symbol, side>>)
      IN  Return(s1, "get_position", <<symbol, side>>,
                 IF side = NoSide
                 THEN SelectSeq(cache, LAMBDA p : p.symbol = symbol)
                 ELSE IF idx = 0 THEN None ELSE cache[idx])
      : s1 \in UpdatePositions(st, TRUE) }

\* PositionManager.get_positions_summary: a forced refresh; in paper mode the
\* P&L is brought up to date and the stop-losses and take-profits are checked;
\* then the totals over the store
GetPositionsSummary(st) ==
    UNION {
      UNION {
        { LET cache == Cache(s3)
          IN  Return(s3, "get_positions_summary", <<>>,
                [total_positions |-> Len(cache),
                 long_positions  |->
                     Len(SelectSeq(cache, LAMBDA p : p.side = "long")),
                 short_positions |->
                     Len(SelectSeq(cache, LAMBDA p : p.side = "short")),
                 unrealized_pnl  |-> SumField(cache, "unrealized_pnl"),
                 realized_pnl    |-> SumField(cache, "realized_pnl"),
                 total_pnl       |-> SumField(cache, "unrealized_pnl")
                                       + SumField(cache, "realized_pnl"),
                 positions_by_symbol |->
                     [sym \in {cache[i].symbol : i \in 1..Len(cache)} |->
                         SelectSeq(cache, LAMBDA p : p.symbol = sym)],
                 paper_trading   |-> paper_trading,
                 paper_balance   |->
                     IF paper_trading THEN s3.paper_balance ELSE None])
          : s3 \in CheckPaperStopLossTakeProfit(s2, "get_positions_summary", <<>>) }
        : s2 \in UpdatePaperPositionsPnl(s1) }
      : s1 \in UpdatePositions(st, TRUE) }

-----------------------------------------------------------------------------
(* Actions: the public operations, and the environment *)

\* the logs are kept within the bounds of the model
Fits(st) ==
    /\ Len(st.operations_log) <= MaxLog
    /\ Len(st.risk_log) <= MaxRiskLog

open_position(a) ==
    \E st \in OpenPosition(Cur, a) : Fits(st) /\ Becomes(st)

close_position(symbol, side, percentage) ==
    \E st \in ClosePosition(Cur, symbol, side, percentage) : Fits(st) /\ Becomes(st)

modify_position(symbol, side, stop_loss, take_profit, trailing_stop) ==
    \E st \in ModifyPosition(Cur, symbol, side, stop_loss, take_profit,
                             trailing_stop) :
        Fits(st) /\ Becomes(st)

manage_positions ==
    \E st \in ManagePositions(Cur) : Fits(st) /\ Becomes(st)

get_position_pnl(symbol, side) ==
    \E st \in GetPositionPnl(Cur, symbol, side) : Fits(st) /\ Becomes(st)

get_position(symbol, side) ==
    \E st \in GetPosition(Cur, symbol, side) : Fits(st) /\ Becomes(st)

get_positions_summary ==
    \E st \in GetPositionsSummary(Cur) : Fits(st) /\ Becomes(st)

\* the market moves
PriceMove(symbol, price) ==
    /\ last_price[symbol] # price
    /\ last_price' = [last_price EXCEPT ![symbol] = price]
    /\ ret' = [op |-> "price_move", args |-> <<symbol, price>>, value |-> None]
    /\ UNCHANGED <<rmVars, pmVars, now, venue_size, venue_entry, venue_stops,
                   venue_calls, refresh_log, threads, bot>>

\* time passes
Tick(d) ==
    /\ now + d <= MaxTime
    /\ now' = now + d
    /\ ret' = [op |-> "tick", args |-> <<d>>, value |-> None]
    /\ UNCHANGED <<rmVars, pmVars, last_price, venue_size, venue_entry,
                   venue_stops, venue_calls, refresh_log, threads, bot>>

-----------------------------------------------------------------------------
(* Construction *)

\* RiskManager.__init__: the configured limits, no risk, an empty log
InitRM ==
    /\ config \in Configs
    /\ balance \in Balances
    /\ current_risk = 0
    /\ risk_log = <<>>
    /\ tracked = EmptyBag

\* PositionManager.__init__: an empty cache that was never refreshed
InitPM ==
    /\ paper_trading \in BOOLEAN
    /\ positions = <<>>
    /\ aliased = FALSE
    /\ last_update_time = 0
    /\ operations_log = <<>>
    /\ paper_positions = <<>>
    /\ paper_balance = config.initial_balance * SizeScale

InitObs ==
    /\ ret = NoCall
    /\ venue_calls = <<>>
    /\ refresh_log = [force |-> FALSE, time |-> 0, outcome |-> "none",
                      last_query |-> 0]
    /\ threads = [t \in Threads |-> Idle]

\* TradingBot.__init__, StrategyManager.__init__, MarketAnalyzer.__init__ and
\* BaseStrategy.__init__: not running, no thread, the trend neutral, nothing
\* blocked, two strategies, both enabled
InitBot ==
    bot = [is_running |-> FALSE,
           strategy_threads |-> [i \in StrategyThreads |-> Unstarted],
           btc_trend |-> "neutral",
           block_long_entries |-> FALSE,
           strategies |-> [n \in 1..2 |->
                              [name |-> IF n = 1 THEN "macd"
                                        ELSE "support_resistance",
                               enabled |-> TRUE,
                               block_long_entries |-> FALSE]]]

-----------------------------------------------------------------------------
(* The risk manager on its own: any caller, any arguments *)

\* prices handed to check_position_size
CheckPrices == {100, 120}

\* prices handed to calculate_position_size
CalcPrices == {0, 100, 30000}

\* risk_percent handed to calculate_position_size, in percent
CalcRiskPercents == {None, 2}

\* stops and targets handed to check_risk_reward_ratio with entry price 100:
\* stop distances 0 and 2, target distances 3, 4 and 6
RatioStops == {98, 100, 102}

RatioTargets == {94, 97, 103, 104}

\* arguments of the risk manager's checks, None where the caller has none
MaybeSizes == {None, 10000}

MaybePrices == {None, 0, 100}

InitRisk ==
    /\ InitRM
    /\ InitPM
    /\ paper_trading = TRUE
    /\ InitObs
    /\ InitBot
    /\ now = 0
    /\ last_price = [s \in Symbols |-> 100]
    /\ venue_size = [k \in Symbols \X Sides |-> 0]
    /\ venue_entry = [k \in Symbols \X Sides |-> 0]
    /\ venue_stops = {}

NextRisk ==
    \/ \E b \in Balances : update_balance(b)
    \/ \E lv \in RiskLevels :
          add_position_risk("BTCUSDT", 20000, lv[1], lv[2])
    \/ \E size \in RiskSizes, price \in CheckPrices :
          check_position_size("BTCUSDT", size, price)
    \/ \E e \in CalcPrices, s \in CalcPrices, rp \in CalcRiskPercents :
          calculate_position_size("BTCUSDT", e, s, rp)
    \/ \E stop \in RatioStops, tp \in RatioTargets, side \in Sides :
          check_risk_reward_ratio(100, stop, tp, side)

SpecRisk == InitRisk /\ [][NextRisk]_vars

\* the ledger on its own: risks added and removed in any order
\* the risk manager called with arguments that may be missing
NextRiskArgs ==
    \/ \E b \in Balances : update_balance(b)
    \/ \E size \in MaybeSizes, price \in MaybePrices :
          check_position_size("BTCUSDT", size, price)
    \/ \E e \in MaybePrices, s \in MaybePrices :
          calculate_position_size("BTCUSDT", e, s, None)

SpecRiskArgs == InitRisk /\ [][NextRiskArgs]_vars

NextLedger ==
    \/ \E b \in Balances : update_balance(b)
    \/ \E size \in RiskSizes, lv \in RiskLevels :
          add_position_risk("BTCUSDT", size, lv[1], lv[2])
    \/ \E size \in RiskSizes, lv \in RiskLevels :
          remove_position_risk("BTCUSDT", size, lv[1], lv[2])

SpecLedger == InitRisk /\ [][NextLedger]_vars

\* the price levels of an order: entry prices of 0.300, 0.304, 2.600 and
\* 100.000 (in thousandths), stops computed without an ATR, with an ATR of 0,
\* 0.002 and 1.500, and targets computed from stops on either side of the
\* entry
NextLevels ==
    \/ \E b \in Balances : update_balance(b)
    \/ \E e \in {300, 304, 2600, 100000}, side \in Sides,
          atr \in {None, 0, 2, 1500} :
          calculate_stop_loss("BTCUSDT", e, side, atr, 200)
    \/ \E e \in {300, 304, 2600, 100000},
          stop \in {290, 300, 310, 2570, 99000, 101000}, side \in Sides :
          calculate_take_profit(e, stop, side)
    \/ \E e \in {304, 100000}, stop \in {300, 99000}, tp \in {310, 312, 102000},
          side \in Sides :
          check_risk_reward_ratio(e, stop, tp, side)

SpecLevels == InitRisk /\ [][NextLevels]_vars


-----------------------------------------------------------------------------
(* Properties of the risk manager *)

RECURSIVE SumOver(_, _)
\* the sum, over the price levels of a set, of size held * risk per unit
SumOver(entries, bag) ==
    IF entries = {} THEN 0
    ELSE LET e == CHOOSE x \in entries : TRUE
         IN  PositionRisk(CopiesIn(e, bag), e[2], e[3])
               + SumOver(entries \ {e}, bag)

\* the sum of the risks of the sizes added and not yet removed
TrackedRisk == SumOver(BagToSet(tracked), tracked)

\* C1: after every add_position_risk / remove_position_risk call current_risk
\* is not negative and equals the sum of the risks of the positions that were
\* added and not yet removed (a removal of part of a position leaves the rest)
C1_LedgerIsSumOfTracked ==
    /\ current_risk >= 0
    /\ current_risk = TrackedRisk

\* r = floor(num / den), for den > 0
IsFloor(r, num, den) == r * den <= num /\ num < (r + 1) * den

CalcCall == ret.op = "calculate_position_size"

CalcEntry == ret.args[2]

CalcStop == ret.args[3]

\* balance * risk_percent * leverage, times 100 * SizeScale
CalcNumerator ==
    balance * RiskPercentOrDefault(ret.args[4]) * config.leverage * SizeScale

\* |entry - stop|, times 100
CalcDenominator == Percent * Abs(CalcEntry - CalcStop)

\* C7 as stated, on positive prices: for entry_price # stop_loss_price and
\* balance, risk_percent, leverage > 0, calculate_position_size returns
\* balance * risk_percent * leverage / |entry - stop| floored to 4 decimals,
\* and the result is strictly positive.
C7_FlooredAndPositive ==
    (/\ CalcCall
     /\ CalcEntry # CalcStop
     /\ CalcEntry > 0
     /\ CalcStop > 0
     /\ balance > 0
     /\ RiskPercentOrDefault(ret.args[4]) > 0
     /\ config.leverage > 0)
    => /\ IsFloor(ret.value, CalcNumerator, CalcDenominator)
       /\ ret.value > 0

\* C7 as amended: for entry_price # stop_loss_price, both > 0, and balance,
\* risk_percent, leverage > 0, the result is that quotient floored to 4
\* decimals; it is never negative, and it is strictly positive exactly when
\* the quotient is at least 0.0001.
C7_Floored ==
    (/\ CalcCall
     /\ CalcEntry # CalcStop
     /\ CalcEntry > 0
     /\ CalcStop > 0
     /\ balance > 0
     /\ RiskPercentOrDefault(ret.args[4]) > 0
     /\ config.leverage > 0)
    => /\ IsFloor(ret.value, CalcNumerator, CalcDenominator)
       /\ ret.value >= 0
       /\ (ret.value > 0 <=> CalcNumerator >= CalcDenominator)

\* a sizing whose quotient is at least 0.0001 and is really cut by the floor
C7_Witness ==
    /\ CalcCall
    /\ CalcEntry # CalcStop /\ CalcEntry > 0 /\ CalcStop > 0
    /\ balance > 0
    /\ config.leverage > 1
    /\ ret.value > 0
    /\ ret.value * CalcDenominator < CalcNumerator

\* C8: calculate_position_size returns the sentinel 0 whenever entry_price
\* equals stop_loss_price, or entry_price <= 0, or stop_loss_price <= 0.
C8_SentinelZero ==
    (/\ CalcCall
     /\ \/ CalcEntry = CalcStop
        \/ CalcEntry <= 0
        \/ CalcStop <= 0)
    => ret.value = 0

\* equal positive prices with a balance that would otherwise give a size
C8_Witness ==
    /\ CalcCall
    /\ CalcEntry = CalcStop
    /\ CalcEntry > 0
    /\ balance > 0
    /\ ret.value = 0

CheckCall == ret.op = "check_position_size"

\* size * price, times SizeScale
CheckNotional == ret.args[2] * ret.args[3]

\* size * price > balance * max_risk_per_trade * leverage
OverTradeCap ==
    CheckNotional * Percent
        > balance * config.max_risk_per_trade * config.leverage * SizeScale

\* current_risk + size * price / leverage > balance * max_risk_total
OverPortfolioCap ==
    Percent * (current_risk + CheckNotional)
        > balance * config.max_risk_total * config.leverage * SizeScale

\* C9: check_position_size returns false whenever the notional size * price
\* exceeds balance * max_risk_per_trade * leverage, whatever current_risk and
\* max_risk_total are; the comparison is on the notional, not on the margin.
C9_TradeCapRejects ==
    (CheckCall /\ OverTradeCap) => ret.value = FALSE

\* a rejection by the per-trade cap alone: balance > 0, portfolio cap slack,
\* and the margin (notional / leverage) within the per-trade cap
C9_Witness ==
    /\ CheckCall
    /\ balance > 0
    /\ OverTradeCap
    /\ ~OverPortfolioCap
    /\ config.leverage > 1
    /\ CheckNotional * Percent
         <= balance * config.max_risk_per_trade * config.leverage
              * config.leverage * SizeScale
    /\ ret.value = FALSE

\* C10: check_position_size returns true exactly when balance > 0, the
\* notional is within the per-trade cap and current_risk + notional/leverage
\* is within the portfolio cap.
C10_AdmitsExactly ==
    CheckCall =>
        (ret.value = TRUE <=>
            (balance > 0 /\ ~OverTradeCap /\ ~OverPortfolioCap))

\* a rejection by the portfolio cap alone, caused by risk already in the ledger
C10_Witness ==
    /\ CheckCall
    /\ balance > 0
    /\ ~OverTradeCap
    /\ OverPortfolioCap
    /\ Percent * CheckNotional
         <= balance * config.max_risk_total * config.leverage * SizeScale
    /\ ret.value = FALSE


RatioCall == ret.op = "check_risk_reward_ratio"

RatioStopDistance == Abs(ret.args[1] - ret.args[2])

RatioTargetDistance == Abs(ret.args[1] - ret.args[3])

\* the quotient |take_profit - entry| / |stop - entry| is below the minimum
BelowMinRatio ==
    RatioTargetDistance * Percent < config.min_risk_reward_ratio * RatioStopDistance

\* C11: check_risk_reward_ratio returns false when the stop distance is zero,
\* false when |take_profit - entry| / |stop - entry| is below
\* min_risk_reward_ratio, and true otherwise
C11_RatioCheck ==
    RatioCall
    => (ret.value = FALSE <=> (RatioStopDistance = 0 \/ BelowMinRatio))

\* a target at exactly twice the stop distance was accepted
C11_Witness ==
    /\ RatioCall
    /\ RatioStopDistance > 0
    /\ RatioTargetDistance * Percent = config.min_risk_reward_ratio * RatioStopDistance
    /\ ret.value = TRUE

-----------------------------------------------------------------------------
(* The position manager *)

\* the prices the market takes
Prices == {100, 120, 130}

\* what the account holds at the venue when the manager is constructed: each
\* position is one unit (10000/SizeScale) entered at 100
Holdings ==
    {{}, {<<"BTCUSDT", "long">>}, {<<"BTCUSDT", "long">>, <<"BTCUSDT", "short">>}}

\* the manager is constructed in live mode or in paper mode, with the limits
\* of one configuration
InitManager(paper) ==
    /\ InitRM
    /\ config.leverage = 2
    /\ config.max_risk_per_trade = 1
    /\ config.max_risk_total = 5
    /\ balance = 1000
    /\ InitPM
    /\ paper_trading = paper
    /\ InitObs
    /\ InitBot

\* time.time() is seconds since 1970: far more than one interval after the 0
\* that last_update_time starts with
InitEnv(held) ==
    /\ now = cache_update_interval
    /\ last_price = [s \in Symbols |-> 100]
    /\ venue_size = [k \in Symbols \X Sides |-> IF k \in held THEN 10000 ELSE 0]
    /\ venue_entry = [k \in Symbols \X Sides |-> IF k \in held THEN 100 ELSE 0]
    /\ venue_stops = {}

\* what open_position is called with in live mode
LiveOpens ==
    [symbol : {"BTCUSDT"}, side : {"long"}, size : {None},
     entry_price : {None}, stop_loss : {None, 90}, take_profit : {None},
     order_type : {"Market"}]
    \cup
    [symbol : {"ETHUSDT"}, side : {"short"}, size : {10000},
     entry_price : {100}, stop_loss : {None}, take_profit : {80},
     order_type : {"Limit"}]

InitLive ==
    /\ InitManager(FALSE)
    /\ \E held \in Holdings : InitEnv(held)

NextLive ==
    \/ \E side \in Sides \cup {NoSide} : close_position("BTCUSDT", side, 100)
    \/ modify_position("BTCUSDT", "long", 95, None, None)
    \/ manage_positions
    \/ get_active_positions
    \/ \E p \in Prices \ {100} : PriceMove("BTCUSDT", p)

SpecLive == InitLive /\ [][NextLive]_vars

\* positions are opened in live mode
NextLiveOpen ==
    \/ \E a \in LiveOpens : open_position(a)
    \/ get_active_positions
    \/ \E p \in {100, 120} : PriceMove("BTCUSDT", p)

SpecLiveOpen == InitLive /\ [][NextLiveOpen]_vars

\* what open_position is called with where positions are opened and closed in
\* live mode: always with a stop-loss, the size given or left to the risk
\* manager
CycleOpens ==
    [symbol : {"BTCUSDT"}, side : {"long"}, size : {None, 10000},
     entry_price : {None}, stop_loss : {90}, take_profit : {None},
     order_type : {"Market"}]

\* live mode, nothing held at the venue, no risk in the ledger
InitCycle ==
    /\ InitManager(FALSE)
    /\ InitEnv({})

\* positions are opened and closed in live mode
NextCycle ==
    \/ \E a \in CycleOpens : open_position(a)
    \/ \E pct \in {50, 100} : close_position("BTCUSDT", "long", pct)
    \/ get_active_positions

SpecCycle == InitCycle /\ [][NextCycle]_vars

\* what open_position is called with where a protected position is modified
\* in live mode: a stop-loss and a take-profit
ProtectedOpens ==
    [symbol : {"BTCUSDT"}, side : {"long"}, size : {10000},
     entry_price : {None}, stop_loss : {90}, take_profit : {150},
     order_type : {"Market"}]

\* a position is opened with its protection and then modified, live mode
NextLiveModify ==
    \/ \E a \in ProtectedOpens : open_position(a)
    \/ \E stop \in {95, 97} : modify_position("BTCUSDT", "long", stop, None, None)
    \/ get_active_positions
    \/ \E p \in {100, 120} : PriceMove("BTCUSDT", p)

SpecLiveModify == InitCycle /\ [][NextLiveModify]_vars

\* either mode, nothing held
InitEither ==
    /\ \E paper \in BOOLEAN : InitManager(paper)
    /\ InitEnv({})

\* positions are opened in either mode
NextOpen ==
    \/ \E a \in LiveOpens : open_position(a)
    \/ get_active_positions
    \/ \E p \in {100, 120} : PriceMove("BTCUSDT", p)

SpecOpen == InitEither /\ [][NextOpen]_vars

\* what open_position is called with in paper mode
PaperOpens ==
    [symbol : {"BTCUSDT"}, side : Sides, size : {10000},
     entry_price : {None}, stop_loss : {None, 90}, take_profit : {None},
     order_type : {"Market"}]

InitPaper ==
    /\ InitManager(TRUE)
    /\ InitEnv({})

NextPaper ==
    \/ \E a \in PaperOpens : open_position(a)
    \/ \E side \in Sides \cup {NoSide}, pct \in {50, 100} :
          close_position("BTCUSDT", side, pct)
    \/ \E side \in Sides : modify_position("BTCUSDT", side, 95, None, None)
    \/ manage_positions
    \/ get_active_positions
    \/ \E p \in {100, 120} : PriceMove("BTCUSDT", p)

SpecPaper == InitPaper /\ [][NextPaper]_vars

\* what open_position is called with in paper mode when the caller's
\* arguments are not screened: the size left to the risk manager, a stop-loss
\* at the entry price
UnscreenedOpens ==
    [symbol : {"BTCUSDT"}, side : {"long"}, size : {None, 10000},
     entry_price : {None}, stop_loss : {None, 90, 100}, take_profit : {None},
     order_type : {"Market"}]

\* percentages close_position is called with, unscreened
UnscreenedPercentages == {-50, 50, 100}

\* paper mode, any arguments
NextPaperArgs ==
    \/ \E a \in UnscreenedOpens : open_position(a)
    \/ \E pct \in UnscreenedPercentages : close_position("BTCUSDT", "long", pct)
    \/ get_active_positions
    \/ \E p \in {100, 120} : PriceMove("BTCUSDT", p)

SpecPaperArgs == InitPaper /\ [][NextPaperArgs]_vars

\* what open_position is called with where paper positions are watched: with
\* a take-profit, with and without a stop-loss
WatchedOpens ==
    [symbol : {"BTCUSDT"}, side : {"long"}, size : {10000},
     entry_price : {None}, stop_loss : {None, 90}, take_profit : {120},
     order_type : {"Market"}]

\* paper positions are opened, reduced, modified and watched while the price
\* moves through their stop-loss and take-profit
NextPaperWatch ==
    \/ \E a \in WatchedOpens : open_position(a)
    \/ close_position("BTCUSDT", "long", 50)
    \/ modify_position("BTCUSDT", "long", 95, None, None)
    \/ \E side \in {"long", NoSide} : get_position_pnl("BTCUSDT", side)
    \/ \E side \in {"long", NoSide} : get_position("BTCUSDT", side)
    \/ get_positions_summary
    \/ \E p \in {80, 120} : PriceMove("BTCUSDT", p)

SpecPaperWatch == InitPaper /\ [][NextPaperWatch]_vars

\* the venue's side of the account changes without the manager: a position is
\* opened or closed by hand, or a resting order fills
VenueChange(key, size) ==
    /\ venue_size[key] # size
    /\ venue_size' = [venue_size EXCEPT ![key] = size]
    /\ venue_entry' = [venue_entry EXCEPT ![key] = IF size = 0 THEN 0 ELSE 100]
    /\ ret' = [op |-> "venue_change", args |-> <<key, size>>, value |-> None]
    /\ UNCHANGED <<rmVars, pmVars, now, last_price, venue_stops, venue_calls,
                   refresh_log, threads, bot>>

InitRefresh ==
    /\ InitManager(FALSE)
    /\ \E held \in Holdings : InitEnv(held)

NextRefresh ==
    \/ get_active_positions
    \/ manage_positions
    \/ \E d \in {1, 2, 3} : Tick(d)
    \/ \E side \in Sides, size \in {0, 10000} :
          VenueChange(<<"BTCUSDT", side>>, size)

SpecRefresh == InitRefresh /\ [][NextRefresh]_vars

-----------------------------------------------------------------------------
(* Two callers at once.  Neither manager holds a lock, so a call of one      *)
(* caller can be suspended between two of its statements while the other    *)
(* caller runs: inside "self.current_risk += position_risk", which reads    *)
(* the attribute, adds, and writes it back, and at the ticker request of    *)
(* _close_paper_position, which waits for the network.                      *)

\* no caller is inside a call
AllIdle == \A t \in Threads : threads[t] = Idle

\* add_position_risk up to the read of self.current_risk in
\* "self.current_risk += position_risk"
AddRiskLoad(t, symbol, size, entry_price, stop_loss) ==
    /\ threads[t] = Idle
    /\ threads' = [threads EXCEPT ![t] =
                      [pc |-> "add_position_risk",
                       args |-> <<symbol, size, entry_price, stop_loss>>,
                       current_risk |-> current_risk]]
    /\ UNCHANGED <<rmVars, pmVars, envVars, obsVars, bot>>

\* add_position_risk from the write of self.current_risk on: the value read
\* before plus this position's risk is stored, and logged
AddRiskStore(t) ==
    /\ threads[t].pc = "add_position_risk"
    /\ Len(risk_log) < MaxRiskLog
    /\ LET a == threads[t].args
       IN  /\ current_risk' = RiskAfterAdd(threads[t].current_risk, a[2], a[3], a[4])
           /\ risk_log' = Append(risk_log,
                  RiskLogEntry("add_risk", a[1], a[2], a[3], a[4], current_risk'))
           /\ tracked' = tracked (+) Entry(a[1], a[2], a[3], a[4])
           /\ ret' = [op |-> "add_position_risk", args |-> a, value |-> None]
    /\ threads' = [threads EXCEPT ![t] = Idle]
    /\ UNCHANGED <<config, balance>>
    /\ UNCHANGED <<pmVars, envVars, venue_calls, refresh_log, bot>>

\* close_position in paper mode up to the ticker request of
\* _close_paper_position: the store is refreshed, the position is found, the
\* size to close is computed from it and the key is seen in paper_positions.
\* Without the position the call returns None at once.
ClosePaperLoad(t, symbol, side, percentage) ==
    /\ threads[t] = Idle
    /\ paper_trading
    /\ \E s1 \in UpdatePositions(Cur, TRUE) :
          LET args == <<symbol, side, percentage>>
              idx == Find(Cache(s1), <<symbol, side>>)
              position == Cache(s1)[idx]
          IN  IF idx = 0
              THEN Becomes(Return(s1, "close_position", args, Failure))
              ELSE Becomes([s1 EXCEPT
                     !.ret = ret,
                     !.venue_calls = venue_calls,
                     !.threads = [threads EXCEPT ![t] =
                         [pc |-> "close_position", args |-> args,
                          position |-> position,
                          size |-> (position.size * percentage) \div Percent]]])

\* _close_paper_position from the ticker's answer on.  `position` is the
\* object read before the request.  While it is still in paper_positions the
\* rest of the method runs on it.  Once the other caller has deleted it, its
\* size is at most 0: the balance still takes the P&L, the size goes further
\* down, and "del self.paper_positions[position_key]" raises KeyError, which
\* close_position catches and answers with None.
ClosePaperStore(t) ==
    /\ threads[t].pc = "close_position"
    /\ LET c == threads[t]
           symbol == c.args[1]
           side == c.args[2]
           Deleted(tk) ==
               LET close_price == IF tk[2] # None THEN tk[2]
                                  ELSE c.position.entry_price
                   pnl == PaperPnl(c.position, c.size, close_price)
               IN  Return([tk[1] EXCEPT !.paper_balance = @ + pnl],
                          "close_position", c.args, Failure)
           results ==
               IF Find(paper_positions, <<symbol, side>>) # 0
               THEN ClosePaperPosition(Cur, "close_position", c.args, symbol,
                                       side, c.size, c.args[3])
               ELSE {Deleted(tk) : tk \in GetTicker(Cur, symbol)}
       IN  \E st \in results :
              /\ Fits(st)
              /\ Becomes([st EXCEPT !.threads = [threads EXCEPT ![t] = Idle]])

\* paper mode with two callers: a position is opened while nobody is inside a
\* call, the price moves, and both callers add risks and close the position,
\* their calls interleaved at the two places above
NextThreads ==
    \/ AllIdle /\ \E a \in ProtectedOpens : open_position(a)
    \/ \E p \in {100, 120} : PriceMove("BTCUSDT", p)
    \/ \E t \in Threads, lv \in RiskLevels :
          AddRiskLoad(t, "BTCUSDT", 20000, lv[1], lv[2])
    \/ \E t \in Threads : AddRiskStore(t)
    \/ \E t \in Threads, pct \in {50, 100} :
          ClosePaperLoad(t, "BTCUSDT", "long", pct)
    \/ \E t \in Threads : ClosePaperStore(t)

SpecThreads == InitPaper /\ [][NextThreads]_vars

-----------------------------------------------------------------------------
(* The bot: start, stop and the strategy loop *)

\* the trends MarketAnalyzer.analyze_btc_trend comes to when it computes one
\* ("neutral", which the analyzer starts with, is treated as "bullish" is)
Trends == {"bullish", "bearish"}

\* what one call of a strategy's execute comes to: it raises, it finds no
\* signal, or it hands a long signal to process_signal
Outcomes == {"raise", "none", "long"}

\* the signal a strategy hands to process_signal: 0.1 unit at 100, the stop
\* ten away on the losing side
Signal(side) ==
    [symbol |-> "BTCUSDT", side |-> side, size |-> 1000, entry_price |-> 100,
     stop_loss |-> IF side = "long" THEN 90 ELSE 110, take_profit |-> None,
     order_type |-> "Limit"]

\* TradingBot.start: nothing when the bot runs already; else is_running is
\* set and a new strategy thread begins at the test of its loop
Start(st) ==
    IF st.bot.is_running
    THEN Return(st, "start", <<>>, None)
    ELSE LET i == CHOOSE i \in StrategyThreads :
                      /\ st.bot.strategy_threads[i] = Unstarted
                      /\ \A j \in 1..(i - 1) : st.bot.strategy_threads[j] # Unstarted
         IN  Return([st EXCEPT
                        !.bot.is_running = TRUE,
                        !.bot.strategy_threads[i].pc = "while"],
                    "start", <<>>, None)

start ==
    /\ bot.is_running \/ \E i \in StrategyThreads : bot.strategy_threads[i] = Unstarted
    /\ Becomes(Start(Cur))

\* TradingBot.stop: nothing when the bot does not run; else is_running is
\* cleared and the strategy thread is waited for with join(timeout=5), which
\* returns with the thread alive when the thread is inside an iteration or in
\* its sleep of strategy_interval (60 s). `stopped` remembers which threads
\* were asked to stop.
Stop(st) ==
    IF ~st.bot.is_running
    THEN Return(st, "stop", <<>>, None)
    ELSE Return([st EXCEPT
                    !.bot.is_running = FALSE,
                    !.bot.strategy_threads =
                        [i \in DOMAIN @ |->
                            IF @[i] = Unstarted THEN @[i]
                            ELSE [@[i] EXCEPT !.stopped = TRUE]]],
                "stop", <<>>, None)

stop == Becomes(Stop(Cur))

\* _run_strategy_loop, from "while self.is_running" to the assignment of the
\* manager's flag: the thread ends when the bot does not run; else it reads
\* the trend the analyzer holds (analyze_btc_trend() with no data returns
\* self.btc_trend) and sets block_long_entries from it
LoopTest(st, i) ==
    IF ~st.bot.is_running
    THEN Return([st EXCEPT !.bot.strategy_threads[i].pc = "done"],
                "loop_ends", <<i>>, None)
    ELSE LET btc_trend == st.bot.btc_trend
         IN  Return([st EXCEPT
                        !.bot.strategy_threads[i].pc = "update",
                        !.bot.strategy_threads[i].btc_trend = btc_trend,
                        !.bot.block_long_entries = (btc_trend = "bearish")],
                    "loop_begins", <<i>>, btc_trend)

loop_test(i) ==
    /\ bot.strategy_threads[i].pc = "while"
    /\ Becomes(LoopTest(Cur, i))

\* market_analyzer.update(market_data): the trend is computed anew from the
\* candles, which are not part of the model
loop_update(i, trend) ==
    /\ bot.strategy_threads[i].pc = "update"
    /\ Becomes(Return([Cur EXCEPT !.bot.btc_trend = trend,
                                  !.bot.strategy_threads[i].pc = "execute"],
                      "update", <<i>>, trend))

\* BaseStrategy.can_open_position
CanOpenPosition(strategy, side) ==
    ~(side = "long" /\ strategy.block_long_entries)

\* BaseStrategy.process_signal: the states it leaves, each with ret set by
\* open_position when it was called
ProcessSignal(st, strategy, signal) ==
    IF ~CanOpenPosition(strategy, signal.side) THEN {st}
    ELSE LET size == IF signal.size = 0
                     THEN CalculatePositionSize(signal.entry_price,
                                                signal.stop_loss, None)
                     ELSE signal.size
         IN  IF ~CheckPositionSize(size, signal.entry_price) THEN {st}
             ELSE OpenPosition(st, [signal EXCEPT !.size = size])

RECURSIVE ExecuteFrom_StopsAtRaise(_, _, _, _)
RECURSIVE ExecuteFrom(_, _, _, _)

\* the strategies would all stop at the first that raises
ExecuteFrom_StopsAtRaise(st, n, outcomes, acc) ==
    IF n > Len(st.bot.strategies)
    THEN {Return(st, "execute", <<>>, acc)}
    ELSE LET strategy == st.bot.strategies[n]
         IN  IF ~strategy.enabled
             THEN ExecuteFrom_StopsAtRaise(st, n + 1, outcomes, acc)
             ELSE IF outcomes[n] = "raise"
             THEN {Return(st, "execute", <<>>,
                          [acc EXCEPT !.ran = Append(@, strategy.name)])}
             ELSE ExecuteFrom_StopsAtRaise(st, n + 1, outcomes,
                          [acc EXCEPT !.ran = Append(@, strategy.name)])

\* StrategyManager.execute from the n-th strategy on: a disabled strategy is
\* passed over; an enabled one gets the manager's flag and is executed, and
\* what it raises is caught and logged. acc collects the strategies executed,
\* those that raised and the sides of the positions opened.
ExecuteFrom(st, n, outcomes, acc) ==
    IF n > Len(st.bot.strategies)
    THEN {Return(st, "execute", <<>>, acc)}
    ELSE LET strategy == st.bot.strategies[n]
             flagged == [strategy EXCEPT
                            !.block_long_entries = st.bot.block_long_entries]
             st1 == [st EXCEPT !.bot.strategies[n] = flagged]
             acc1 == [acc EXCEPT !.ran = Append(@, strategy.name)]
         IN  IF ~strategy.enabled
             THEN ExecuteFrom(st, n + 1, outcomes, acc)
             ELSE IF outcomes[n] = "raise"
             THEN ExecuteFrom(st1, n + 1, outcomes,
                              [acc1 EXCEPT !.raised = @ \cup {strategy.name}])
             ELSE IF outcomes[n] = "none"
             THEN ExecuteFrom(st1, n + 1, outcomes, acc1)
             ELSE UNION {
                    ExecuteFrom(st2, n + 1, outcomes,
                        IF Len(st2.operations_log) > Len(st1.operations_log)
                        THEN [acc1 EXCEPT !.opened = Append(@, outcomes[n])]
                        ELSE acc1)
                    : st2 \in ProcessSignal(st1, flagged, Signal(outcomes[n])) }

\* strategy_manager.execute() in the loop of thread i; the result records the
\* trend the thread read at the start of this iteration
loop_execute(i, outcomes) ==
    /\ bot.strategy_threads[i].pc = "execute"
    /\ \E st \in ExecuteFrom(Cur, 1, outcomes,
                             [ran |-> <<>>, raised |-> {}, opened |-> <<>>,
                              outcomes |-> outcomes,
                              btc_trend |-> bot.strategy_threads[i].btc_trend]) :
          /\ Fits(st)
          /\ Becomes([st EXCEPT !.bot.strategy_threads[i].pc = "manage",
                                !.bot.strategy_threads[i].btc_trend = None,
                                !.ret.args = <<i>>])

\* position_manager.manage_positions() and _update_stats(), which once an
\* hour asks for the active positions; then the thread sleeps until the next
\* test of its loop
loop_manage(i) ==
    /\ bot.strategy_threads[i].pc = "manage"
    /\ \E st1 \in ManagePositions(Cur) :
       \E st2 \in {st1} \cup UpdatePositions(st1, FALSE) :
          /\ Fits(st2)
          /\ Becomes(Return([st2 EXCEPT !.bot.strategy_threads[i].pc = "while"],
                            "manage_positions", <<i>>, None))

\* StrategyManager.enable_strategy (enabled = TRUE) and disable_strategy
\* (enabled = FALSE): strategy.enable() or strategy.disable() on the strategy
\* of that name, True returned when there is one
SetEnabled(st, strategy_name, enabled) ==
    LET found == {n \in DOMAIN st.bot.strategies :
                     st.bot.strategies[n].name = strategy_name}
    IN  Return([st EXCEPT !.bot.strategies =
                   [n \in DOMAIN @ |->
                       IF n \in found THEN [@[n] EXCEPT !.enabled = enabled]
                       ELSE @[n]]],
               IF enabled THEN "enable_strategy" ELSE "disable_strategy",
               <<strategy_name>>, found # {})

set_enabled(strategy_name, enabled) ==
    Becomes(SetEnabled(Cur, strategy_name, enabled))

\* the bot in paper mode: it is started and stopped, its strategy threads run
\* their loops, and a strategy is disabled and enabled
NextBot ==
    \/ start
    \/ stop
    \/ \E i \in StrategyThreads : loop_test(i)
    \/ \E i \in StrategyThreads, trend \in Trends :
          loop_update(i, trend)
    \/ \E i \in StrategyThreads, outcomes \in [1..2 -> Outcomes] :
          loop_execute(i, outcomes)
    \/ \E i \in StrategyThreads : loop_manage(i)
    \/ \E enabled \in BOOLEAN : set_enabled("macd", enabled)

SpecBot == InitPaper /\ [][NextBot]_vars

-----------------------------------------------------------------------------
(* Properties of the position manager *)

\* the stop-loss orders resting at the venue for a position
StopsInForce(symbol, side) ==
    {o \in venue_stops : o.symbol = symbol /\ o.side = side /\ o.kind = "StopLoss"}

\* the stop-loss orders of a list of venue calls that protect a long
LongStopsSent(calls, symbol) ==
    {calls[i].trigger : i \in {j \in 1..Len(calls) :
        /\ calls[j].symbol = symbol
        /\ calls[j].kind = "StopLoss"
        /\ calls[j].side = "Sell"}}

\* C2: the trailing stop only ratchets: a stop-loss that manage_positions
\* sends for a long position is never lower than a stop-loss already in force
\* for it that the price has not reached
C2_TrailingStopRatchets ==
    [][ret'.op = "manage_positions"
        => \A symbol \in Symbols :
             \A o \in StopsInForce(symbol, "long") :
               \A sent \in LongStopsSent(venue_calls', symbol) :
                 last_price[symbol] > o.trigger => sent >= o.trigger]_vars

\* a long and a short of the symbol are open at the venue and in the cache
BothOpen(symbol) ==
    /\ venue_size[<<symbol, "long">>] > 0
    /\ venue_size[<<symbol, "short">>] > 0
    /\ Find(positions, <<symbol, "long">>) # 0
    /\ Find(positions, <<symbol, "short">>) # 0

\* C3: close_position with the side omitted, while a long and a short of the
\* symbol are both open, fails: it sends no order and closes nothing
C3_AmbiguousCloseFails ==
    [][(/\ ret'.op = "close_position"
        /\ ret'.args[2] = NoSide
        /\ BothOpen(ret'.args[1]))
        => /\ ~ret'.value.success
           /\ venue_calls' = <<>>
           /\ venue_size' = venue_size]_vars

\* a step of get_active_positions: one non-forced refresh
NonForcedRefresh ==
    /\ ret'.op = "get_active_positions"
    /\ ~refresh_log'.force
    /\ refresh_log'.time = now

\* the outcomes of a refresh that queried the venue
Queried == {"ok", "error", "raise", "malformed"}

\* the refresh before this one was not forced and is less than one interval old
Recent ==
    /\ ~refresh_log.force
    /\ now - refresh_log.time < cache_update_interval

\* C4 as stated: of two non-forced refreshes less than one interval apart, the
\* first of which queries the venue, the second does not query; a non-forced
\* refresh one interval or more after the last query queries again
C4_OneQueryPerInterval ==
    [][NonForcedRefresh
        => /\ (Recent /\ refresh_log.outcome \in Queried
                 => refresh_log'.outcome = "skipped")
           /\ (now - refresh_log.last_query >= cache_update_interval
                 => refresh_log'.outcome \in Queried)]_vars

\* C4 as the code has it: the second refresh does not query when the first
\* query was answered and parsed without an exception (with a success code or
\* not); a non-forced refresh one interval or more after the last query
\* queries again
C4_OneQueryPerAnsweredInterval ==
    [][NonForcedRefresh
        => /\ (Recent /\ refresh_log.outcome \in {"ok", "error"}
                 => refresh_log'.outcome = "skipped")
           /\ (now - refresh_log.last_query >= cache_update_interval
                 => refresh_log'.outcome \in Queried)]_vars

\* a refresh was skipped some seconds after the query that filled the cache
C4_Witness ==
    /\ ~paper_trading
    /\ ret.op = "get_active_positions"
    /\ refresh_log.outcome = "skipped"
    /\ now - last_update_time \in 1..(cache_update_interval - 1)
    /\ positions # <<>>

\* C5: a refresh whose venue query fails (a non-success code, an exception of
\* the call, an exception while the answer is parsed) leaves the cache as it
\* was
C5_FailedRefreshKeepsCache ==
    [][(/\ ret'.op = "get_active_positions"
        /\ refresh_log'.outcome \in {"error", "raise", "malformed"})
        => positions' = positions]_vars

\* the paper position that a close_position step closes
ClosedPaper == paper_positions[Find(paper_positions, <<ret'.args[1], ret'.value.side>>)]

\* C6: in paper mode a successful close of 100% of a position at the exit
\* price X realizes (X - entry) * size * leverage for a long and
\* (entry - X) * size * leverage for a short, moves paper_balance by exactly
\* that and removes the position
C6_FullPaperCloseRealizesPnl ==
    [][(/\ paper_trading
        /\ ret'.op = "close_position"
        /\ ret'.args[3] = 100
        /\ ret'.value.success)
        => LET X == ret'.value.close_price
               expected ==
                   IF ClosedPaper.side = "long"
                   THEN (X - ClosedPaper.entry_price) * ClosedPaper.size
                            * config.leverage
                   ELSE (ClosedPaper.entry_price - X) * ClosedPaper.size
                            * config.leverage
           IN  /\ ret'.value.pnl = expected
               /\ paper_balance' = paper_balance + expected
               /\ Find(paper_positions', <<ret'.args[1], ret'.value.side>>) = 0]_vars

\* a short was closed in full at a profit
C6_Witness ==
    /\ paper_trading
    /\ ret.op = "close_position"
    /\ ret.args[3] = 100
    /\ ret.value.success
    /\ ret.value.side = "short"
    /\ ret.value.pnl > 0
    /\ paper_balance = config.initial_balance * SizeScale + ret.value.pnl

\* a position of the symbol and side is held at the venue
Held(symbol, side) == venue_size[<<symbol, side>>] > 0

\* nothing is held at the venue
NothingHeld == \A k \in Symbols \X Sides : venue_size[k] = 0

\* C12: risk entries are added and removed one for one: once a position that
\* open_position opened with a stop-loss has been closed in full by
\* close_position, current_risk is back at its value before the open (0 where
\* the manager starts with nothing held)
C12_RiskReturnsAfterClose ==
    (/\ ret.op = "close_position"
     /\ ret.value.success
     /\ NothingHeld)
    => current_risk = 0

\* the operations of the core that callers use
PublicOperations ==
    {"open_position", "close_position", "modify_position", "manage_positions",
     "get_position", "get_position_pnl", "get_positions_summary",
     "check_position_size", "calculate_position_size"}

\* the last operation raised to its caller
Raised == "raised" \in DOMAIN ret

\* C13: no public operation raises to its caller, whatever the venue does and
\* whatever precondition is violated: every failure is a falsy or None result
C13_NoOperationRaises == ret.op \in PublicOperations => ~Raised

\* C14: a key is in the store only while its position has size > 0: no
\* stored position, live or paper, has a size of 0 or less
C14_StoredSizesPositive ==
    /\ \A i \in 1..Len(positions) : positions[i].size > 0
    /\ \A i \in 1..Len(paper_positions) : paper_positions[i].size > 0

\* the store as callers read it
Store == IF aliased THEN paper_positions ELSE positions

\* the operations that keep a position: closes, modifications, monitoring
KeepingOperations ==
    {"close_position", "modify_position", "manage_positions",
     "get_active_positions", "get_position", "get_position_pnl",
     "get_positions_summary"}

\* C15: for a position that stays in the store, the stored size never grows
\* across close_position (any percentage), modify_position and the monitor
\* calls
C15_SizeNeverGrows ==
    [][ret'.op \in KeepingOperations
        => \A i \in 1..Len(Store) :
             LET j == Find(Store', PosKey(Store[i]))
             IN  j # 0 => Store'[j].size <= Store[i].size]_vars

\* C16: the entry_price of a stored position is the same from its creation to
\* its removal: a partial close, a modification, a P&L update and the
\* stop-loss/take-profit check leave it as it was
C16_EntryPriceFixed ==
    [][ret'.op \in KeepingOperations
        => \A i \in 1..Len(paper_positions) :
             LET j == Find(paper_positions', PosKey(paper_positions[i]))
             IN  j # 0 => paper_positions'[j].entry_price
                            = paper_positions[i].entry_price]_vars

\* a position entered at 100 is still stored, reduced and marked to another
\* price, after a P&L update at that price
C16_Witness ==
    /\ ret.op \in {"get_position_pnl", "get_positions_summary"}
    /\ \E i \in 1..Len(paper_positions) :
         /\ paper_positions[i].entry_price = 100
         /\ last_price[paper_positions[i].symbol] # 100
         /\ paper_positions[i].unrealized_pnl # 0
         /\ paper_positions[i].realized_pnl # 0
         /\ paper_positions[i].size < 10000

\* the take-profit and trailing-stop orders resting at the venue for a position
OtherProtection(symbol, side) ==
    {o \in venue_stops : /\ o.symbol = symbol
                         /\ o.side = side
                         /\ o.kind \in {"TakeProfit", "TrailingStop"}}

\* C17: modify_position leaves the protective fields it is not given as they
\* were: after modify_position(stop_loss = x) without take_profit and
\* trailing_stop, the take-profit and trailing protection set before is still
\* in force (the stored value in paper mode, the resting order in live mode)
C17_UnsuppliedFieldsKept ==
    [][(/\ ret'.op = "modify_position"
        /\ ret'.args[4] = None
        /\ ret'.args[5] = None)
        => /\ OtherProtection(ret'.args[1], ret'.args[2]) \subseteq venue_stops'
           /\ \A i \in 1..Len(paper_positions) :
                PosKey(paper_positions[i]) = <<ret'.args[1], ret'.args[2]>>
                => LET j == Find(paper_positions', PosKey(paper_positions[i]))
                   IN  /\ j # 0
                       /\ paper_positions'[j].take_profit
                            = paper_positions[i].take_profit
                       /\ paper_positions'[j].trailing_stop
                            = paper_positions[i].trailing_stop]_vars

\* the store holds what the venue holds
StoreCurrent == positions = ParseList(VenueList(venue_size, venue_entry))

\* C18: modify_position changes only the stop_loss, take_profit and
\* trailing_stop of the position it is called for: that position's size and
\* entry_price, every other position, the paper balance and the risk ledger
\* are as before (in live mode: for a store that was current)
C18_ModifyChangesOnlyProtection ==
    [][(ret'.op = "modify_position" /\ ret'.value.success /\ StoreCurrent)
        => /\ paper_balance' = paper_balance
           /\ current_risk' = current_risk
           /\ risk_log' = risk_log
           /\ Len(Store') = Len(Store)
           /\ \A i \in 1..Len(Store) :
                LET j == Find(Store', PosKey(Store[i]))
                IN  /\ j # 0
                    /\ Store'[j].size = Store[i].size
                    /\ Store'[j].entry_price = Store[i].entry_price
                    /\ PosKey(Store[i]) # <<ret'.args[1], ret'.args[2]>>
                       => Store'[j] = Store[i]]_vars

\* the last operation was an open_position without a size and without a
\* stop-loss
UnsizedOpen(r) ==
    r.op = "open_position" /\ r.args[3] = None /\ r.args[5] = None

\* C19: open_position without a size and without a stop-loss fails and is not
\* attempted: no entry order is placed, no position is created, the risk
\* ledger and the operation log are as before
C19_UnsizedOpenNotAttempted ==
    [][UnsizedOpen(ret')
        => /\ ~ret'.value.success
           /\ venue_calls' = <<>>
           /\ venue_size' = venue_size
           /\ venue_stops' = venue_stops
           /\ positions' = positions
           /\ paper_positions' = paper_positions
           /\ current_risk' = current_risk
           /\ risk_log' = risk_log
           /\ operations_log' = operations_log]_vars

\* such a call was made, and failed, after a position had been opened
C19_Witness ==
    /\ UnsizedOpen(ret)
    /\ ~ret.value.success
    /\ operations_log # <<>>

\* C20: open_position asks the risk manager's admissibility check before it
\* places anything and rejects what the check disallows: no position is
\* opened through open_position whose size and price fail
\* check_position_size
C20_OpensOnlyAdmissible ==
    [][(ret'.op = "open_position" /\ ret'.value.success)
        => CheckPositionSize(ret'.value.size, ret'.value.entry_price)]_vars

\* the kinds of the conditional orders that protect a position
ProtectionKinds == {"StopLoss", "TakeProfit", "TrailingStop"}

\* among the orders sent there is a stop-loss or take-profit order that does
\* not rest at the venue: its placement failed
FailedProtection(calls, stops) ==
    \E i \in 1..Len(calls) :
        /\ calls[i].reduce_only
        /\ calls[i].kind \in {"StopLoss", "TakeProfit"}
        /\ \A o \in stops : ~(/\ o.symbol = calls[i].symbol
                              /\ o.kind = calls[i].kind
                              /\ o.trigger = calls[i].trigger)

\* the reduce-only orders sent that are not conditional: closing orders
ClosingOrders(calls) ==
    {i \in 1..Len(calls) :
        calls[i].reduce_only /\ calls[i].kind \notin ProtectionKinds}

\* C21: in live mode, when the entry order succeeds and the placement of the
\* stop-loss or of the take-profit order fails, open_position does not roll
\* back: it sends no closing order, still refreshes the store by force and
\* returns a success result
C21_NoRollback ==
    [][(ret'.op = "open_position" /\ FailedProtection(venue_calls', venue_stops'))
        => /\ ret'.value.success
           /\ ClosingOrders(venue_calls') = {}
           /\ refresh_log'.force
           /\ refresh_log'.time = now
           /\ refresh_log'.outcome \in Queried]_vars

\* an open whose stop-loss order failed returned success after a refresh that
\* the venue answered
C21_Witness ==
    /\ ret.op = "open_position"
    /\ FailedProtection(venue_calls, venue_stops)
    /\ ret.value.success
    /\ ret.value.stop_loss = 90
    /\ refresh_log.outcome = "ok"

\* C22: a successful open_position registers risk exactly when a stop-loss
\* was given: current_risk then grows by size * |entry_price - stop_loss| /
\* leverage, and is unchanged by an open without stop-loss
C22_OpenRegistersRisk ==
    [][(ret'.op = "open_position" /\ ret'.value.success)
        => current_risk' =
             current_risk
               + (IF ret'.value.stop_loss # None
                  THEN PositionRisk(ret'.value.size, ret'.value.entry_price,
                                    ret'.value.stop_loss)
                  ELSE 0)]_vars

\* the records of operations_log of the opens of a position with a stop-loss
OpenedWithStop(symbol, side) ==
    {i \in 1..Len(operations_log) :
        /\ operations_log[i].operation = "open_position"
        /\ operations_log[i].symbol = symbol
        /\ operations_log[i].side = side
        /\ operations_log[i].stop_loss # None}

\* C23: close_position on an open position sends exactly one reduce-only
\* order, on the side opposite to the position, for position.size *
\* percentage / 100; when it succeeds the risk ledger goes down by closed
\* size * |entry_price - stop_loss| / leverage, the store is refreshed and
\* one record is appended to the operation log
C23_CloseOrderAndLedger ==
    [][(ret'.op = "close_position" /\ ret'.value.success /\ ~paper_trading)
        => /\ venue_calls' =
                <<VenueCall("place_order", ret'.args[1],
                            IF ret'.value.side = "short" THEN "Buy" ELSE "Sell",
                            ret'.value.size, TRUE, "Market", None)>>
           /\ ret'.value.size * Percent
                = venue_size[<<ret'.args[1], ret'.value.side>>] * ret'.args[3]
           /\ \A i \in OpenedWithStop(ret'.args[1], ret'.value.side) :
                current_risk' =
                    Max(0, current_risk
                             - PositionRisk(ret'.value.size,
                                            operations_log[i].price,
                                            operations_log[i].stop_loss))
           /\ refresh_log'.force
           /\ refresh_log'.outcome \in Queried
           /\ Len(operations_log') = Len(operations_log) + 1]_vars

\* the first order an operation sent was a Market order for a quantity that
\* the venue could fill
FirstOrderFillable(calls, reduce_only) ==
    /\ calls # <<>>
    /\ calls[1].kind = "Market"
    /\ calls[1].reduce_only = reduce_only
    /\ calls[1].qty > 0

\* the venue did not take the order of this open_position or close_position
\* step: the order was fillable and the venue's positions are as before
OrderNotTaken ==
    \/ /\ ret'.op = "open_position"
       /\ FirstOrderFillable(venue_calls', FALSE)
       /\ venue_size' = venue_size
    \/ /\ ret'.op = "close_position"
       /\ FirstOrderFillable(venue_calls', TRUE)
       /\ \E side \in Sides :
            /\ venue_calls'[1].side = (IF side = "short" THEN "Buy" ELSE "Sell")
            /\ Held(ret'.args[1], side)
       /\ venue_size' = venue_size

\* C24: when the venue rejects the order of open_position or close_position
\* (a non-success code, or no response), the operation returns a failure
\* result, sends no further order, and leaves the risk ledger and the
\* operation log as they were
C24_RejectionLeavesNoTrace ==
    [][OrderNotTaken
        => /\ ~ret'.value.success
           /\ Len(venue_calls') = 1
           /\ current_risk' = current_risk
           /\ risk_log' = risk_log
           /\ operations_log' = operations_log]_vars

\* a close of a held position was rejected after an open had been logged
C24_Witness ==
    /\ ret.op = "close_position"
    /\ ~ret.value.success
    /\ Len(venue_calls) = 1
    /\ Held("BTCUSDT", "long")
    /\ Find(positions, <<"BTCUSDT", "long">>) # 0
    /\ operations_log # <<>>
    /\ current_risk > 0

\* the operations that write the operation log when they succeed
LoggedOperations == {"open_position", "close_position", "modify_position"}

\* C25: the operation log is append-only and complete: a successful open,
\* close or modify appends exactly one record, a failed one appends none, a
\* close forced by the paper stop-loss/take-profit check appends one, and no
\* step removes or reorders records
C25_LogAppendOnlyAndComplete ==
    [][/\ Len(operations_log') >= Len(operations_log)
       /\ SubSeq(operations_log', 1, Len(operations_log)) = operations_log
       /\ ret'.op \in LoggedOperations
          => Len(operations_log') =
               Len(operations_log) + (IF ret'.value.success THEN 1 ELSE 0)
       /\ ret'.op = "get_positions_summary"
          => Len(operations_log') - Len(operations_log)
               = Len(paper_positions) - Len(paper_positions')]_vars

\* the price has crossed the stop-loss or the take-profit of a paper position
Crossed(position) ==
    LET price == last_price[position.symbol]
    IN  \/ /\ Truthy(position.stop_loss)
           /\ \/ position.side = "long" /\ price <= position.stop_loss
              \/ position.side = "short" /\ price >= position.stop_loss
        \/ /\ Truthy(position.take_profit)
           /\ \/ position.side = "long" /\ price >= position.take_profit
              \/ position.side = "short" /\ price <= position.take_profit

\* the paper position is stored after the step as it was before it, the
\* unrealized P&L apart
KeptAsItWas(position) ==
    LET j == Find(paper_positions', PosKey(position))
    IN  /\ j # 0
        /\ [paper_positions'[j] EXCEPT !.unrealized_pnl = 0]
             = [position EXCEPT !.unrealized_pnl = 0]

\* the step removed the paper position and logged a close of its whole size
\* at one of the prices
ClosedInFullAt(position, prices) ==
    /\ Find(paper_positions', PosKey(position)) = 0
    /\ \E k \in (Len(operations_log) + 1)..Len(operations_log') :
         /\ operations_log'[k].operation = "close_paper_position"
         /\ operations_log'[k].symbol = position.symbol
         /\ operations_log'[k].side = position.side
         /\ operations_log'[k].size = position.size
         /\ operations_log'[k].price \in prices

\* no operation but get_positions_summary runs the trigger check: a paper
\* position leaves the store only by get_positions_summary or close_position
CheckOnlyInSummary ==
    ret'.op \notin {"get_positions_summary", "close_position"}
    => \A i \in 1..Len(paper_positions) :
         Find(paper_positions', PosKey(paper_positions[i])) # 0

C27_PaperRefreshIsLocal ==
    paper_trading
    => /\ refresh_log.outcome \notin Queried
       /\ refresh_log.outcome # "none" => Store = paper_positions
       /\ ret.op = "get_active_positions" => ret.value = paper_positions

\* get_active_positions returned an open paper position when no refresh was
\* due
C27_Witness ==
    /\ paper_trading
    /\ ret.op = "get_active_positions"
    /\ refresh_log.outcome = "skipped"
    /\ ret.value # <<>>
    /\ ret.value = paper_positions

\* what the closes recorded in operations_log credited
LoggedPnl ==
    LET Sum[i \in 0..Len(operations_log)] ==
            IF i = 0 THEN 0
            ELSE Sum[i - 1] + (IF operations_log[i].operation = "close_paper_position"
                               THEN operations_log[i].pnl ELSE 0)
    IN  Sum[Len(operations_log)]

\* C28: calls of two callers on the risk ledger and on the position store
\* lose no update: once both callers are out of their calls, current_risk is
\* the sum of the risks added, and paper_balance has taken the P&L of each
\* recorded close once.
C28_NoLostUpdate ==
    AllIdle => /\ current_risk = TrackedRisk
               /\ paper_balance = config.initial_balance * SizeScale + LoggedPnl

\* C29: a successful paper close removes the position exactly when the
\* percentage is 100 or more or the size left is 0 or less; a close of more
\* than 0 and less than 100 percent that leaves it in the store has reduced
\* its size by exactly size * percentage / 100 and has raised its
\* realized_pnl by the P&L of this close.
C29_PartialPaperClose ==
    [][(/\ paper_trading
        /\ ret'.op = "close_position"
        /\ ret'.value.success)
        => LET key == <<ret'.args[1], ret'.value.side>>
               percentage == ret'.args[3]
               remaining == ClosedPaper.size
                              - (ClosedPaper.size * percentage) \div Percent
               left == Find(paper_positions', key)
           IN  /\ left = 0 <=> (percentage >= 100 \/ remaining <= 0)
               /\ (0 < percentage /\ percentage < 100 /\ left # 0)
                    => /\ paper_positions'[left].size = remaining
                       /\ paper_positions'[left].realized_pnl
                            = ClosedPaper.realized_pnl + ret'.value.pnl]_vars

\* half of a long was closed at a profit: the other half is in the store with
\* that profit realized
C29_Witness ==
    /\ paper_trading
    /\ ret.op = "close_position"
    /\ ret.args[3] = 50
    /\ ret.value.success
    /\ ret.value.pnl > 0
    /\ LET left == Find(paper_positions, <<"BTCUSDT", "long">>)
       IN  /\ left # 0
           /\ paper_positions[left].size = 5000
           /\ paper_positions[left].realized_pnl = ret.value.pnl

\* the stop-loss levels a position has before the monitor runs: the one stored
\* with a paper position, the ones resting at the venue for a live position
StopLevels(symbol, side) ==
    IF paper_trading
    THEN LET i == Find(paper_positions, <<symbol, side>>)
         IN  IF i = 0 THEN {} ELSE {paper_positions[i].stop_loss} \ {None}
    ELSE {o.trigger : o \in StopsInForce(symbol, side)}

\* the entry price of a position before the monitor runs
EnteredAt(symbol, side) ==
    IF paper_trading
    THEN paper_positions[Find(paper_positions, <<symbol, side>>)].entry_price
    ELSE venue_entry[<<symbol, side>>]

\* the modify_position records that the step has appended to operations_log
ModifiesIssued ==
    {operations_log'[i] : i \in {j \in Len(operations_log) + 1 .. Len(operations_log') :
        operations_log'[j].operation \in {"modify_position", "modify_paper_position"}}}

\* C30: the monitor issues a modify_position for a long only when the profit
\* (price - entry) / entry has reached the activation threshold and the
\* candidate price * (1 - callback) is strictly above every stop-loss the
\* position has; for a short only when (entry - price) / entry has reached the
\* threshold and the candidate price * (1 + callback) is strictly below them.
C30_TrailingStopOnlyWhenBetter ==
    [][ret'.op = "manage_positions"
        => \A m \in ModifiesIssued :
             LET price == last_price[m.symbol]
                 entry == EnteredAt(m.symbol, m.side)
                 callback == config.trailing_stop_callback
             IN  IF m.side = "long"
                 THEN /\ (price - entry) * Percent
                            >= config.trailing_stop_activation * entry
                      /\ m.stop_loss = (price * (Percent - callback)) \div Percent
                      /\ \A resting \in StopLevels(m.symbol, m.side) : m.stop_loss > resting
                 ELSE /\ (entry - price) * Percent
                            >= config.trailing_stop_activation * entry
                      /\ m.stop_loss = (price * (Percent + callback)) \div Percent
                      /\ \A resting \in StopLevels(m.symbol, m.side) : m.stop_loss < resting]_vars

\* C31: calculate_stop_loss returns entry -/+ atr_value * atr_multiplier when
\* an ATR above 0 is given and entry * (1 -/+ stop_loss_percent / 100)
\* otherwise, a price strictly below the entry for a long and strictly above
\* it for a short.
C31_StopOnLosingSide ==
    ret.op = "calculate_stop_loss"
      => LET entry_price == ret.args[2]
             side == ret.args[3]
             atr_value == ret.args[4]
             atr_multiplier == ret.args[5]
             sign == IF side = "long" THEN -1 ELSE 1
             offset == IF atr_value # None /\ atr_value > 0
                       THEN atr_value * atr_multiplier
                       ELSE entry_price * config.stop_loss_percent
         IN  /\ ret.value * Percent = entry_price * Percent + sign * offset
             /\ IF side = "long" THEN ret.value < entry_price
                ELSE ret.value > entry_price

\* C32: calculate_take_profit returns entry + |entry - stop| * ratio for a
\* long and entry - |entry - stop| * ratio for a short, ratio being
\* min_risk_reward_ratio.
C32_TargetAtRatioDistance ==
    ret.op = "calculate_take_profit"
      => LET entry_price == ret.args[1]
             distance == (IF ret.args[1] >= ret.args[2]
                          THEN ret.args[1] - ret.args[2]
                          ELSE ret.args[2] - ret.args[1])
                           * config.min_risk_reward_ratio
         IN  IF ret.args[3] = "long"
             THEN ret.value * Percent = entry_price * Percent + distance
             ELSE ret.value * Percent = entry_price * Percent - distance

\* C36: for a stop-loss different from the entry price, the take-profit that
\* calculate_take_profit returns is accepted by check_risk_reward_ratio for the
\* same entry, stop-loss and side.
C36_ComputedTargetIsAccepted ==
    (ret.op = "calculate_take_profit" /\ ret.args[1] # ret.args[2])
      => CheckRiskRewardRatio(ret.args[1], ret.args[2], ret.value, ret.args[3])

C35_PaperReopenReplaces ==
    [][(/\ paper_trading
        /\ ret'.op = "open_position"
        /\ ret'.value.success
        /\ Find(paper_positions, <<ret'.args[1], ret'.args[2]>>) # 0)
        => LET key == <<ret'.args[1], ret'.args[2]>>
               new == paper_positions'[Find(paper_positions', key)]
           IN  /\ Find(paper_positions', key) # 0
               /\ Len(paper_positions') = Len(paper_positions)
               /\ new.size = ret'.value.size
               /\ new.entry_price = ret'.value.entry_price
               /\ new.entry_price = last_price[key[1]]
               /\ new.stop_loss = ret'.args[5]
               /\ new.take_profit = ret'.args[6]
               /\ new.realized_pnl = 0
               /\ paper_balance' = paper_balance
               /\ Len(operations_log') = Len(operations_log) + 1
               /\ SubSeq(operations_log', 1, Len(operations_log)) = operations_log
               /\ operations_log'[Len(operations_log')].operation
                    = "open_paper_position"]_vars

\* a long entered at 100 with a stop-loss was opened again at 120 without
\* one: the store holds the second, and the log the two opens and no close
C35_Witness ==
    /\ paper_trading
    /\ ret.op = "open_position"
    /\ ret.value.success
    /\ Len(operations_log) = 2
    /\ operations_log[1].operation = "open_paper_position"
    /\ operations_log[2].operation = "open_paper_position"
    /\ operations_log[1].symbol = operations_log[2].symbol
    /\ operations_log[1].side = operations_log[2].side
    /\ operations_log[1].price = 100 /\ operations_log[1].stop_loss = 90
    /\ Len(paper_positions) = 1
    /\ paper_positions[1].entry_price = 120
    /\ paper_positions[1].stop_loss = None
    /\ paper_balance = config.initial_balance * SizeScale

\* C37 as stated: a non-forced refresh that follows, within one interval, a
\* refresh whose query got a non-success code does not query the venue; a
\* non-forced refresh that follows a refresh whose query raised queries the
\* venue again.
C37_TimerAfterFailedQuery ==
    [][(ret'.op = "get_active_positions" /\ ~paper_trading)
        => /\ (/\ refresh_log.outcome = "error"
               /\ now - refresh_log.time < cache_update_interval)
                 => refresh_log'.outcome = "skipped"
           /\ refresh_log.outcome = "raise"
                 => refresh_log'.outcome \in Queried]_vars

\* C37 as the code has it: after a non-success code the timer is restarted
\* and a non-forced refresh within one interval does not query; a query that
\* raises leaves the timer at the time of the last refresh that completed,
\* so the non-forced refresh after it queries again when the raising refresh
\* was itself not forced, and otherwise exactly when one interval has passed
\* since that time.
C37_TimerKeptAfterRaise ==
    [][(ret'.op = "get_active_positions" /\ ~paper_trading)
        => /\ (/\ refresh_log.outcome = "error"
               /\ now - refresh_log.time < cache_update_interval)
                 => refresh_log'.outcome = "skipped"
           /\ refresh_log'.outcome = "raise"
                 => last_update_time' = last_update_time
           /\ (refresh_log.outcome = "raise" /\ ~refresh_log.force)
                 => refresh_log'.outcome \in Queried
           /\ (refresh_log.outcome = "raise" /\ refresh_log.force)
                 => (refresh_log'.outcome \in Queried
                       <=> now - last_update_time >= cache_update_interval)]_vars

\* a forced refresh raised less than one interval after a refresh that had
\* completed, and the non-forced refresh after it did not query the venue
C37_Witness ==
    /\ ~paper_trading
    /\ ret.op = "get_active_positions"
    /\ refresh_log.outcome = "skipped"
    /\ refresh_log.last_query > last_update_time
    /\ now - last_update_time < cache_update_interval

-----------------------------------------------------------------------------
(* Properties of the bot *)

\* the strategy threads that are inside an iteration of their loop
Iterating ==
    {i \in StrategyThreads :
        bot.strategy_threads[i].pc \in {"update", "execute", "manage"}}

\* C38: whatever the calls of start() and stop(), at most one strategy thread
\* is inside an iteration of its loop at any time, start() called while the
\* bot runs creates no thread, and a thread that stop() was called on never
\* begins another iteration.
C38_OneStrategyLoop ==
    [][/\ Cardinality(Iterating') <= 1
       /\ bot.is_running /\ ret'.op = "start"
             => bot'.strategy_threads = bot.strategy_threads
       /\ ret'.op = "loop_begins"
             => ~bot.strategy_threads[ret'.args[1]].stopped]_vars

\* the strategies a call of StrategyManager.execute finds enabled and with
\* the given outcome
EnabledWith(outcomes, outcome) ==
    {n \in DOMAIN bot.strategies :
        bot.strategies[n].enabled /\ outcomes[n] = outcome}

\* C33: an iteration of the strategy loop sets the manager's block flag from
\* the trend it read, execute copies the flag to every strategy it runs, no
\* long is opened by the strategies in an iteration that read "bearish", and
\* every long signal is taken in an iteration that read another trend.
C33_NoLongInBearishIteration ==
    [][/\ ret'.op = "loop_begins"
             => bot'.block_long_entries = (ret'.value = "bearish")
       /\ ret'.op = "execute"
             => /\ \A n \in DOMAIN bot.strategies :
                      bot.strategies[n].enabled
                         => bot'.strategies[n].block_long_entries
                               = bot.block_long_entries
                /\ ret'.value.btc_trend = "bearish"
                      => ret'.value.opened = <<>>
                /\ ret'.value.btc_trend # "bearish"
                      => Len(ret'.value.opened)
                            = Cardinality(EnabledWith(ret'.value.outcomes, "long"))]_vars

\* the names of the enabled strategies, in the order of the manager's dict
EnabledNames ==
    LET enabled == SelectSeq(bot.strategies, LAMBDA s : s.enabled)
    IN  [n \in DOMAIN enabled |-> enabled[n].name]

\* C39: a call of StrategyManager.execute runs the enabled strategies, each
\* once and in order, and no disabled one, whichever of them raise; nothing is
\* raised to the strategy loop, whose thread is then at manage_positions, and
\* manage_positions can be called there.
C39_EveryEnabledStrategyRunsOnce ==
    /\ [][ret'.op = "execute"
             => /\ ret'.value.ran = EnabledNames
                /\ bot'.strategy_threads[ret'.args[1]].pc = "manage"]_vars
    /\ [](\A i \in StrategyThreads :
             bot.strategy_threads[i].pc = "manage" => ENABLED loop_manage(i))

\* the first strategy raised, the second ran all the same and opened its
\* long, and the thread is at manage_positions
C39_Witness ==
    /\ ret.op = "execute"
    /\ ret.value.raised = {"macd"}
    /\ ret.value.ran = <<"macd", "support_resistance">>
    /\ ret.value.opened = <<"long">>
    /\ bot.strategy_threads[ret.args[1]].pc = "manage"

=============================================================================
